---- MODULE Spec2Model ----
(***************************************************************************)
(* Shotgun Library panel: the catalog resolver                             *)
(* (ShotgunDataManager.find_files) and the filter cascade of               *)
(* ShotgunLibraryUI (format -> sub-asset -> version -> resolved path).     *)
(*                                                                         *)
(* Python strings are sequences of one-character strings, so that the      *)
(* string functions of the code (strip, endswith, split, re.search) are    *)
(* computed character by character.  Python values whose type varies       *)
(* (None, str, list, tuple, int) are records tagged by the field t.        *)
(***************************************************************************)
EXTENDS Integers, Sequences, FiniteSets, TLC

\* ------------------------------------------------------------------ bounds
\* the longest batch the store returns to one Version query
MaxBatch == 3
\* the longest sibling history the store returns to one history query
MaxHistory == 3
\* the longest input of a helper function, in tokens
MaxTokens == 3

\* ------------------------------------------------------- Python str layer
LowerLetters == <<"a","b","c","d","e","f","g","h","i","j","k","l","m",
                  "n","o","p","q","r","s","t","u","v","w","x","y","z">>
UpperLetters == <<"A","B","C","D","E","F","G","H","I","J","K","L","M",
                  "N","O","P","Q","R","S","T","U","V","W","X","Y","Z">>
DigitChars == <<"0","1","2","3","4","5","6","7","8","9">>
PunctChars == <<" ", "\"", "'", "(", ")", ",", "-", ".", "/", "[", "]", "_">>
PunctCodes == <<32, 34, 39, 40, 41, 44, 45, 46, 47, 91, 93, 95>>

IndexIn(seq, c) == CHOOSE i \in 1..Len(seq) : seq[i] = c
IsIn(seq, c) == \E i \in 1..Len(seq) : seq[i] = c

\* ord(c): the code point of a character, the order sorted() compares by
ord(c) ==
    IF IsIn(LowerLetters, c) THEN 96 + IndexIn(LowerLetters, c)
    ELSE IF IsIn(UpperLetters, c) THEN 64 + IndexIn(UpperLetters, c)
    ELSE IF IsIn(DigitChars, c) THEN 47 + IndexIn(DigitChars, c)
    ELSE PunctCodes[IndexIn(PunctChars, c)]

isdigit(c) == IsIn(DigitChars, c)
\* the value of a digit character, 0..9
digit_value(c) == IndexIn(DigitChars, c) - IndexIn(DigitChars, "0")

\* str.lower()
lower_char(c) == IF IsIn(UpperLetters, c) THEN LowerLetters[IndexIn(UpperLetters, c)] ELSE c
lower(s) == [i \in 1..Len(s) |-> lower_char(s[i])]

\* s[i:] for a 1-based i
Drop(s, i) == SubSeq(s, i, Len(s))

startswith(s, p) == Len(p) <= Len(s) /\ SubSeq(s, 1, Len(p)) = p
endswith(s, p) == Len(p) <= Len(s) /\ SubSeq(s, Len(s) - Len(p) + 1, Len(s)) = p
\* does sub occur in s at 1-based position i
MatchAt(s, i, sub) == i >= 1 /\ i + Len(sub) - 1 <= Len(s) /\ SubSeq(s, i, i + Len(sub) - 1) = sub
\* sub in s
contains(s, sub) == \E i \in 1..(Len(s) + 1) : MatchAt(s, i, sub)

\* str.strip(chars): drop the leading and trailing characters that are in chars
strip_chars(s, chars) ==
    LET keep == {i \in 1..Len(s) : s[i] \notin chars}
    IN  IF keep = {} THEN <<>>
        ELSE LET lo == CHOOSE i \in keep : \A j \in keep : i <= j
                 hi == CHOOSE i \in keep : \A j \in keep : i >= j
             IN  SubSeq(s, lo, hi)
\* str.strip(): whitespace
strip(s) == strip_chars(s, {" "})
\* str.strip('\'" ') left out
strip_quotes_Keep(s) == s

\* str.strip('\'" ')
strip_quotes(s) == strip_chars(s, {"'", "\"", " "})

\* s < t in Python's string order (code points, a proper prefix first)
str_less(s, t) ==
    \E i \in 1..(Len(t)) :
        /\ i <= Len(s) + 1
        /\ SubSeq(s, 1, i - 1) = SubSeq(t, 1, i - 1)
        /\ (i = Len(s) + 1 \/ ord(s[i]) < ord(t[i]))

\* sorted(list(S)) for a set S of strings
RECURSIVE sorted(_)
sorted(S) ==
    IF S = {} THEN <<>>
    ELSE LET m == CHOOSE x \in S : \A y \in S : y = x \/ str_less(x, y)
         IN  <<m>> \o sorted(S \ {m})

\* the elements of a sequence
Range(seq) == {seq[i] : i \in 1..Len(seq)}

\* the concatenation of a sequence of sequences
RECURSIVE Flat(_)
Flat(ss) == IF ss = <<>> THEN <<>> ELSE Head(ss) \o Flat(Tail(ss))

\* --------------------------------------------------- Python value layer
NoneVal == [t |-> "none"]
StrVal(s) == [t |-> "str", s |-> s]
ListVal(l) == [t |-> "list", l |-> l]
TupleVal(l) == [t |-> "tuple", l |-> l]
IntVal(n) == [t |-> "int", n |-> n]


\* ---------------------------------------------------- regular expressions
\* the end of the greedy \d+ run that starts at i (i - 1 when s[i] is no digit)
DigitsEnd(s, i) ==
    LET ends == {j \in i..Len(s) : \A k \in i..j : isdigit(s[k])}
    IN  IF ends = {} THEN i - 1 ELSE CHOOSE j \in ends : \A k \in ends : k <= j

\* int(digits): leading zeros carry no value
RECURSIVE int(_)
int(ds) == IF ds = <<>> THEN 0 ELSE 10 * int(SubSeq(ds, 1, Len(ds) - 1)) + digit_value(ds[Len(ds)])

\* re.search(r'<p>v(\d+)', s) for a one-character prefix class p: the leftmost
\* position i with s[i] in p, s[i+1] = "v" and a digit at i+2; 0 when none
VersionSearch(s, prefix) ==
    LET hits == {i \in 1..Len(s) : /\ s[i] \in prefix
                                   /\ i + 2 <= Len(s)
                                   /\ s[i + 1] = "v"
                                   /\ isdigit(s[i + 2])}
    IN  IF hits = {} THEN 0 ELSE CHOOSE i \in hits : \A j \in hits : i <= j

\* re.search(r'(t1|t2|...)', s): the leftmost position where an alternative
\* matches, and there the first alternative in the order written; <<>> when none
AlternationSearch(tokens, s) ==
    LET hits == {i \in 1..Len(s) : \E k \in 1..Len(tokens) : MatchAt(s, i, tokens[k])}
    IN  IF hits = {} THEN <<>>
        ELSE LET i == CHOOSE a \in hits : \A b \in hits : a <= b
                 k == CHOOSE a \in 1..Len(tokens) :
                        /\ MatchAt(s, i, tokens[a])
                        /\ \A b \in 1..(a - 1) : ~MatchAt(s, i, tokens[b])
             IN  tokens[k]

\* ------------------------------------------------- ShotgunDataManager
ASSET_TOKENS == << <<"m","d","l">>, <<"s","h","d">>, <<"r","i","g">>, <<"t","x","t">>,
                   <<"c","g","f","x","-","s","e","t","u","p">>,
                   <<"c","n","c","p","t">>, <<"a","s","s","y">> >>
SHOT_TOKENS == << <<"a","n","i","m">>, <<"c","g","f","x">>, <<"c","o","m","p">>,
                  <<"l","a","y","o","u","t">>, <<"l","g","t">>, <<"m","m">>,
                  <<"m","a","t","p">>, <<"p","a","i","n","t">>, <<"r","o","t","o">>,
                  <<"a","s","s","y">> >>
ASSET_UNKNOWN == <<"a","s","s","e","t","_","u","n","k","n","o","w","n">>
SHOT_UNKNOWN == <<"s","h","o","t","_","u","n","k","n","o","w","n">>

\* _categorize_version: the category written on the record, NoneVal when the
\* entity type is neither Asset nor Shot (the key "category" is then not set)
_categorize_version(entity_type, code) ==
    LET c == lower(code)
    IN  IF entity_type = "Asset"
        THEN LET m == AlternationSearch(ASSET_TOKENS, c)
             IN  StrVal(IF m # <<>> THEN m ELSE ASSET_UNKNOWN)
        ELSE IF entity_type = "Shot"
        THEN LET m == AlternationSearch(SHOT_TOKENS, c)
             IN  StrVal(IF m # <<>> THEN m ELSE SHOT_UNKNOWN)
        ELSE NoneVal

_get_version_number_first_digit(version_code) ==
    LET i == VersionSearch(version_code, {"_"})
    IN  IF i = 0 THEN 0 ELSE digit_value(version_code[i + 2])

\* _get_version_number: int of the digits of the first "_v<digits>", else 0
_get_version_number(version_code) ==
    LET i == VersionSearch(version_code, {"_"})
    IN  IF i = 0 THEN 0 ELSE int(SubSeq(version_code, i + 2, DigitsEnd(version_code, i + 2)))


\* ------------------------------------------------------ ast.literal_eval
\* The literals of the model's alphabet: quoted strings (no escapes: the
\* alphabet has no backslash), unsigned integers, and lists and tuples of
\* literals, nested, with spaces and a trailing comma allowed.  Anything else
\* (a bare name, a path outside quotes, an unclosed bracket) raises.
\* A parse result is [ok, v, i]: the value and the position after it.
ParseFail == [ok |-> FALSE, v |-> NoneVal, i |-> 0]
RECURSIVE SkipSpaces(_, _)
SkipSpaces(s, i) == IF i <= Len(s) /\ s[i] = " " THEN SkipSpaces(s, i + 1) ELSE i

RECURSIVE ParseValue(_, _)
RECURSIVE ParseItems(_, _, _, _, _)
\* the items up to the closing bracket: acc the items read, comma whether the
\* last thing read was a comma
ParseItems(s, i0, close, acc, comma) ==
    LET i == SkipSpaces(s, i0)
    IN  IF i > Len(s) THEN ParseFail
        ELSE IF s[i] = close
        THEN [ok |-> TRUE, v |-> [l |-> acc, comma |-> comma], i |-> i + 1]
        ELSE IF acc # <<>> /\ ~comma
        THEN IF s[i] = "," THEN ParseItems(s, i + 1, close, acc, TRUE) ELSE ParseFail
        ELSE LET r == ParseValue(s, i)
             IN  IF r.ok THEN ParseItems(s, r.i, close, Append(acc, r.v), FALSE) ELSE ParseFail

ParseValue(s, i0) ==
    LET i == SkipSpaces(s, i0)
    IN  IF i > Len(s) THEN ParseFail
        ELSE IF s[i] \in {"'", "\""}
        THEN LET ends == {j \in (i + 1)..Len(s) : s[j] = s[i]}
             IN  IF ends = {} THEN ParseFail
                 ELSE LET j == CHOOSE a \in ends : \A b \in ends : a <= b
                      IN  [ok |-> TRUE, v |-> StrVal(SubSeq(s, i + 1, j - 1)), i |-> j + 1]
        ELSE IF isdigit(s[i])
        THEN LET j == DigitsEnd(s, i)
             IN  [ok |-> TRUE, v |-> IntVal(int(SubSeq(s, i, j))), i |-> j + 1]
        ELSE IF s[i] = "["
        THEN LET r == ParseItems(s, i + 1, "]", <<>>, FALSE)
             IN  IF r.ok THEN [ok |-> TRUE, v |-> ListVal(r.v.l), i |-> r.i] ELSE ParseFail
        ELSE IF s[i] = "("
        THEN LET r == ParseItems(s, i + 1, ")", <<>>, FALSE)
             IN  IF ~r.ok THEN ParseFail
                 \* (x) is x itself, (x,) and (x, y) are tuples
                 ELSE IF Len(r.v.l) = 1 /\ ~r.v.comma
                 THEN [ok |-> TRUE, v |-> r.v.l[1], i |-> r.i]
                 ELSE [ok |-> TRUE, v |-> TupleVal(r.v.l), i |-> r.i]
        ELSE ParseFail

\* ast.literal_eval(s): [ok, v]; ok is FALSE when it raises
literal_eval(s) ==
    LET r == ParseValue(s, 1)
    IN  IF r.ok /\ SkipSpaces(s, r.i) > Len(s) THEN [ok |-> TRUE, v |-> r.v]
        ELSE [ok |-> FALSE, v |-> NoneVal]

\* ------------------------------------------------ ShotgunLibraryUI helpers
Bracketed(d) ==
    \/ startswith(d, <<"[">>) /\ endswith(d, <<"]">>)
    \/ startswith(d, <<"(">>) /\ endswith(d, <<")">>)

\* _flatten_and_clean_paths(data): a list (sequence) of strings
RECURSIVE _flatten_and_clean_paths(_)
_flatten_and_clean_paths(data) ==
    IF data.t = "str"
    THEN LET d == strip(data.s)
         IN  IF Bracketed(d)
             THEN LET r == literal_eval(d)
                  IN  IF r.ok THEN _flatten_and_clean_paths(r.v) ELSE <<strip_quotes(d)>>
             ELSE <<strip_quotes(d)>>
    ELSE IF data.t \in {"list", "tuple"}
    THEN Flat([k \in 1..Len(data.l) |-> _flatten_and_clean_paths(data.l[k])])
    ELSE <<>>

FMT_UNKNOWN == <<"u","n","k","n","o","w","n">>
FMT_BGEO_SC == <<"b","g","e","o",".","s","c">>

_get_file_format_first_dot(path) ==
    IF path = <<>> THEN FMT_UNKNOWN
    ELSE IF endswith(path, <<".">> \o FMT_BGEO_SC) THEN FMT_BGEO_SC
    ELSE LET dots == {i \in 1..Len(path) : path[i] = "."}
         IN  IF dots = {} THEN FMT_UNKNOWN
             ELSE Drop(path, (CHOOSE i \in dots : \A j \in dots : i <= j) + 1)

\* _get_file_format(path), for the strings a normalized path list holds
_get_file_format(path) ==
    IF path = <<>> THEN FMT_UNKNOWN
    ELSE IF endswith(path, <<".">> \o FMT_BGEO_SC) THEN FMT_BGEO_SC
    ELSE LET dots == {i \in 1..Len(path) : path[i] = "."}
         IN  IF dots = {} THEN FMT_UNKNOWN
             ELSE Drop(path, (CHOOSE i \in dots : \A j \in dots : i >= j) + 1)

\* _get_file_format(path) for a value of any type (line 686)
FileFormatOf(v) == IF v.t # "str" THEN FMT_UNKNOWN ELSE _get_file_format(v.s)

\* _extract_version_from_path: "v<digits>" after the first "/" or "_" that
\* one follows, <<>> for None
_extract_version_from_path(path) ==
    LET i == VersionSearch(path, {"/", "_"})
    IN  IF i = 0 THEN <<>> ELSE SubSeq(path, i + 1, DigitsEnd(path, i + 2))

\* re.sub(r'_v\d+', '_' + pv, orig, 1)
SubVersion(orig, pv) ==
    LET i == VersionSearch(orig, {"_"})
    IN  IF i = 0 THEN orig
        ELSE SubSeq(orig, 1, i) \o pv \o Drop(orig, DigitsEnd(orig, i + 2) + 1)


\* ------------------------------------------------------- the store (rows)
\* The tracked-version store is external: each query returns some rows that
\* satisfy the filters the code sends, or raises.  The rows below are the
\* universe the store's answers are drawn from.
S_mdl == <<"m","d","l">>
S_anim == <<"a","n","i","m">>
S_cgfx == <<"c","g","f","x">>
S_sq == <<"s","q">>
S_abc == <<"a","b","c">>
S_usd == <<"u","s","d">>
S_NA == <<"N","/","A">>
S_v2 == <<"v","2">>

\* codes of another category than the panel's default: such rows are siblings in
\* a history but never gallery entries of the context mdl/cgfx
Code_prp_mdl_v1 == <<"p","r","p","_","m","d","l","_","v","1">>
Code_prp_mdl_v3 == <<"p","r","p","_","m","d","l","_","v","3">>
Code_mdl_v1 == <<"c","g","f","x","_","m","d","l","_","v","1">>
Code_mdl_v2 == <<"c","g","f","x","_","m","d","l","_","v","2">>
Code_mdl_v02 == <<"c","g","f","x","_","m","d","l","_","v","0","2">>
Code_mdl_v10 == <<"c","g","f","x","_","m","d","l","_","v","1","0">>
Code_mdl_none == <<"c","g","f","x","_","m","d","l","_","w","i","p">>
Code_rig_v1 == <<"c","g","f","x","_","r","i","g","_","v","1">>
Code_anim_v1 == <<"s","q","_","0","1","0","_","a","n","i","m","_","v","1">>
Code_loose == <<"t","m","p","_","v","1">>
Code_mdl_v0 == <<"c","g","f","x","_","m","d","l","_","v","0">>

Path_a1_abc == <<"/","a","_","v","1",".","a","b","c">>
Path_a1_usd == <<"/","a","_","v","1",".","u","s","d">>
Path_a2_abc == <<"/","a","_","v","2",".","a","b","c">>
Path_a2_usd == <<"/","a","_","v","2",".","u","s","d">>
Path_a3_usd == <<"/","a","_","v","3",".","u","s","d">>
Path_b1_abc == <<"/","b",".","a","b","c">>
Path_s1_abc == <<"/","s",".","a","b","c">>
Path_c1_usd == <<"/","c",".","u","s","d">>
\* a string-encoded list, as the store sometimes holds it: "['/a_v3.usd']"
Geo_a3_literal == <<"[","'">> \o Path_a3_usd \o <<"'","]">>

Name_a == <<"a">>
Name_b == <<"b">>
Name_c == <<"c">>
Name_sq_010 == <<"s","q","_","0","1","0">>

EntityA == [type |-> "Asset", id |-> 1, name |-> Name_a]
EntityB == [type |-> "Asset", id |-> 2, name |-> Name_b]
EntityC == [type |-> "Asset", id |-> 3, name |-> Name_c]
EntityS == [type |-> "Shot", id |-> 4, name |-> Name_sq_010]
\* a Version may be linked to an entity that is neither an Asset nor a Shot
EntityQ == [type |-> "Sequence", id |-> 5, name |-> S_sq]

Row(id, project, code, entity, seq, geo, created_at) ==
    [id |-> id, project |-> project, code |-> code, entity |-> entity,
     sg_sequence |-> seq, sg_path_to_geometry |-> geo, created_at |-> created_at]

V1 == Row(1, 1, Code_prp_mdl_v1, EntityA, <<>>, ListVal(<<StrVal(Path_a1_abc), StrVal(Path_a1_usd)>>), 1)
V2 == Row(2, 1, Code_mdl_v2, EntityA, <<>>, ListVal(<<StrVal(Path_a2_abc), StrVal(Path_a2_usd)>>), 2)
V3 == Row(3, 1, Code_prp_mdl_v3, EntityA, <<>>, StrVal(Geo_a3_literal), 3)
V4 == Row(4, 1, Code_mdl_v1, EntityB, <<>>, StrVal(Path_b1_abc), 4)
V5 == Row(5, 1, Code_mdl_v2, EntityB, <<>>, NoneVal, 5)
V6 == Row(6, 1, Code_anim_v1, EntityS, S_sq, ListVal(<<StrVal(Path_s1_abc)>>), 6)
V7 == Row(7, 2, Code_mdl_v1, EntityC, <<>>, ListVal(<<StrVal(Path_c1_usd)>>), 7)
\* rows only the resolver's own specification draws: an exact tie with V2 on
\* the version number, a two-digit number, an unversioned code, another
\* category, and a version linked to no entity
V8 == Row(8, 1, Code_mdl_v02, EntityA, <<>>, ListVal(<<StrVal(Path_a2_abc)>>), 8)
V9 == Row(9, 1, Code_mdl_v10, EntityA, <<>>, ListVal(<<StrVal(Path_a1_abc)>>), 9)
V10 == Row(10, 1, Code_mdl_none, EntityA, <<>>, ListVal(<<StrVal(Path_a1_abc)>>), 10)
V11 == Row(11, 1, Code_rig_v1, EntityA, <<>>, ListVal(<<StrVal(Path_a1_abc)>>), 11)
V13 == Row(13, 1, Code_mdl_v1, EntityA, <<>>, ListVal(<<StrVal(Path_a1_abc)>>), 13)
V12 == Row(12, 1, Code_loose, NoneVal, <<>>, ListVal(<<StrVal(Path_a1_abc)>>), 12)
\* a version linked to a Sequence and a version numbered 0
V14 == Row(14, 1, Code_anim_v1, EntityQ, <<>>, ListVal(<<StrVal(Path_s1_abc)>>), 14)
V15 == Row(15, 1, Code_mdl_v0, EntityA, <<>>, ListVal(<<StrVal(Path_a1_abc)>>), 15)

PanelRows == {V1, V2, V3, V4, V5, V6, V7}
ResolverRows == {V2, V4, V6, V8, V9, V10, V11, V12, V13, V14, V15}

\* the sequences of distinct elements of S of length at most n
RECURSIVE DistinctSeqs(_, _)
DistinctSeqs(S, n) ==
    IF n = 0 THEN {<<>>}
    ELSE LET shorter == DistinctSeqs(S, n - 1)
         IN  shorter \cup {Append(qx[1], qx[2]) :
                             qx \in {p \in shorter \X S : p[2] \notin Range(p[1])}}


\* str.split(sep) for a one-character separator
RECURSIVE split(_, _)
split(s, sep) ==
    LET cuts == {i \in 1..Len(s) : s[i] = sep}
    IN  IF cuts = {} THEN <<s>>
        ELSE LET i == CHOOSE a \in cuts : \A b \in cuts : a <= b
             IN  <<SubSeq(s, 1, i - 1)>> \o split(Drop(s, i + 1), sep)

\* _get_category_abbreviation
_get_category_abbreviation(category_name) ==
    LET n == lower(category_name)
    IN  CASE n = <<"c","h","a","r","a","c","t","e","r","s">> -> <<"c","h","r">>
          [] n = <<"e","n","v","i","r","o","n","m","e","n","t","s">> -> <<"e","n","v">>
          [] n = <<"p","r","o","p","s">> -> <<"p","r","p">>
          [] n = <<"v","e","h","i","c","l","e","s">> -> <<"v","e","h">>
          [] n = S_cgfx -> S_cgfx
          [] OTHER -> <<>>

\* The filters find_files sends with its Version query, beside the project
\* and the "path is not null" filters: the entity type ("" for none), the
\* sequence (NoneVal for none) and the substrings the code must contain.
\* find_one is the outcome of the Sequence lookup: "raise", "none" or "found".
NoFilters == [etype |-> "", seq |-> NoneVal, code_contains |-> {}]
BuildFilters(tab_context, entity_type, find_one) ==
    IF tab_context = <<>> \/ entity_type = "" THEN NoFilters
    ELSE LET parts == split(tab_context, "/")
         IN  IF Len(parts) # 2 THEN NoFilters
             ELSE LET type_part == parts[1]
                      category_part == parts[2]
                      abbr == _get_category_abbreviation(category_part)
                  IN  IF entity_type = "Asset"
                      THEN [etype |-> "Asset", seq |-> NoneVal,
                            code_contains |-> (IF abbr # <<>> THEN {abbr} ELSE {}) \cup {type_part}]
                      ELSE IF entity_type = "Shot"
                      THEN IF find_one = "raise"
                           \* the except clause drops the code filters with the exception
                           THEN [etype |-> "Shot", seq |-> NoneVal, code_contains |-> {}]
                           ELSE [etype |-> "Shot",
                                 seq |-> IF find_one = "found" THEN StrVal(category_part) ELSE NoneVal,
                                 code_contains |-> {type_part}]
                      ELSE NoFilters

\* does a row satisfy the Version query of find_files under project pid
MatchesFilters(row, pid, f) ==
    /\ row.project = pid
    /\ row.sg_path_to_geometry # NoneVal
    /\ (f.etype # "" => row.entity # NoneVal /\ row.entity.type = f.etype)
    /\ (f.seq # NoneVal => row.sg_sequence = f.seq.s)
    /\ \A c \in f.code_contains : contains(lower(row.code), lower(c))

\* lines 125-130: the path field becomes a list
NormalizeGeo(geo) ==
    LET v == IF geo.t = "str"
             THEN IF strip(geo.s) # <<>>
                  THEN LET r == literal_eval(geo.s)
                       IN  IF r.ok THEN r.v ELSE ListVal(<<StrVal(strip(geo.s))>>)
                  ELSE ListVal(<<>>)
             ELSE IF geo.t = "none" THEN ListVal(<<>>)
             ELSE geo
    IN  IF v.t # "list" THEN ListVal(<<v>>) ELSE v

\* the record find_files keeps of a row: path field normalized, category set
Categorized(row) ==
    [id |-> row.id, code |-> row.code, entity |-> row.entity,
     sg_path_to_geometry |-> NormalizeGeo(row.sg_path_to_geometry),
     created_at |-> row.created_at,
     category |-> _categorize_version(row.entity.type, row.code)]

VersionKey(v) == <<v.entity.type, v.entity.id, v.category>>

ReplacesLatest_LastWins(present, curr, exist) == ~present \/ curr >= exist

\* line 139: does v take the place of its key in latest
ReplacesLatest(present, curr, exist) == ~present \/ curr > exist

\* list(latest.values()) read from the last inserted key to the first
LatestValues_Reversed(latest) == [k \in 1..Len(latest) |-> latest[Len(latest) + 1 - k].v]

\* line 141: list(latest.values()), in insertion order
LatestValues(latest) == [k \in 1..Len(latest) |-> latest[k].v]

\* lines 132-141: latest is the dict, a sequence of [key, v] in insertion order
RECURSIVE LatestSelection(_, _)
LatestSelection(versions, latest) ==
    IF versions = <<>> THEN LatestValues(latest)
    ELSE LET v == Head(versions)
             key == VersionKey(v)
             at == {k \in 1..Len(latest) : latest[k].key = key}
             curr == _get_version_number(v.code)
             exist == IF at = {} THEN _get_version_number(<<>>)
                      ELSE _get_version_number(latest[CHOOSE k \in at : TRUE].v.code)
         IN  IF ReplacesLatest(at # {}, curr, exist)
             THEN IF at = {}
                  THEN LatestSelection(Tail(versions), Append(latest, [key |-> key, v |-> v]))
                  ELSE LatestSelection(Tail(versions),
                                       [latest EXCEPT ![CHOOSE k \in at : TRUE] = [key |-> key, v |-> v]])
             ELSE LatestSelection(Tail(versions), latest)

\* what the Version query of find_files may return when it does not raise:
\* rows that satisfy the filters, at most n of them, in any order
StoreAnswers(rows, pid, f, n) == DistinctSeqs({row \in rows : MatchesFilters(row, pid, f)}, n)

\* find_files(tab_context, entity_type) under project pid with login handle
\* sg (FALSE for None), against the store outcomes find_one (the Sequence
\* lookup), find_raises and answer (the Version query).  The result is
\* [raised, val]: raised when an exception leaves find_files, val the list
\* returned otherwise.
find_files(pid, sg, tab_context, entity_type, find_raises, answer) ==
    IF pid = 0 THEN [raised |-> FALSE, val |-> <<>>]
    ELSE IF ~sg \/ find_raises THEN [raised |-> FALSE, val |-> <<>>]
    \* _categorize_version: None has no attribute get
    ELSE IF \E k \in 1..Len(answer) : answer[k].entity = NoneVal
    THEN [raised |-> TRUE, val |-> <<>>]
    ELSE [raised |-> FALSE,
          val |-> LatestSelection([k \in 1..Len(answer) |-> Categorized(answer[k])], <<>>)]

\* the filters of the Version query (lines 80-116)
find_files_filters(sg, tab_context, entity_type, find_one) ==
    BuildFilters(tab_context, entity_type, IF sg THEN find_one ELSE "raise")


\* ----------------------------------------------------------- QComboBox
\* A pick-list is [items, data, index]: the entry texts, the userData of each
\* entry, and currentIndex (0-based, -1 for no current entry).
EmptyCombo == [items |-> <<>>, data |-> <<>>, index |-> -1]
clear(cb) == EmptyCombo
\* addItem(text, userData): the first entry of an empty list becomes current
addItem(cb, text, d) ==
    [items |-> Append(cb.items, text), data |-> Append(cb.data, d),
     index |-> IF cb.items = <<>> THEN 0 ELSE cb.index]
RECURSIVE addItems(_, _)
addItems(cb, texts) ==
    IF texts = <<>> THEN cb ELSE addItems(addItem(cb, Head(texts), NoneVal), Tail(texts))
currentText(cb) == IF cb.index = -1 THEN <<>> ELSE cb.items[cb.index + 1]
currentData(cb) == IF cb.index = -1 THEN NoneVal ELSE cb.data[cb.index + 1]
findText(cb, text) ==
    LET hits == {i \in 1..Len(cb.items) : cb.items[i] = text}
    IN  IF hits = {} THEN -1 ELSE (CHOOSE i \in hits : \A j \in hits : i <= j) - 1
setCurrentIndex(cb, i) == [cb EXCEPT !.index = i]
\* setCurrentText on a non-editable list: nothing happens when the text is absent
setCurrentText(cb, text) ==
    IF findText(cb, text) > -1 THEN setCurrentIndex(cb, findText(cb, text)) ELSE cb

\* ----------------------------------------------------- ShotgunLibraryUI
ASSET_TYPES == ASSET_TOKENS
SHOT_TYPES == SHOT_TOKENS
HAL_CATEGORY_TYPES == << S_cgfx, <<"c","h","a","r","a","c","t","e","r","s">>,
                         <<"e","n","v","i","r","o","n","m","e","n","t","s">>,
                         <<"p","r","o","p","s">>, <<"v","e","h","i","c","l","e","s">> >>
\* line 81: the label of the "no sub-asset" entry, one symbol here
NO_ASSET_FILTER_TAG == <<"NO_ASSET_FILTER_TAG">>
S_All == <<"A","l","l">>

VARIABLES
    ui,     \* the ShotgunLibraryUI instance: its fields and its widgets' state
    last,   \* the handler that ran last, and what it handed to the host
    ff,     \* the call of find_files the resolver's specification runs
    pf      \* the call of a helper function the helpers' specification runs
vars == <<ui, last, ff, pf>>

\* _update_displayed_info without the format test of line 772: the first path
_update_displayed_info_first_path(u) ==
    LET d == currentData(u.material_combo)
    IN  IF d = NoneVal THEN [u EXCEPT !.file_path_label = S_NA]
        ELSE [u EXCEPT !.file_path_label =
                 IF d.sg_path_to_geometry = <<>> THEN S_NA ELSE d.sg_path_to_geometry[1]]

\* _update_displayed_info (the path label)
_update_displayed_info(u) ==
    LET d == currentData(u.material_combo)
        fmt == currentText(u.render_combo)
    IN  IF d = NoneVal THEN [u EXCEPT !.file_path_label = S_NA]
        ELSE LET paths == d.sg_path_to_geometry
                 hits == {k \in 1..Len(paths) : _get_file_format(paths[k]) = fmt}
             IN  [u EXCEPT !.file_path_label =
                     IF hits = {} THEN S_NA
                     ELSE paths[CHOOSE k \in hits : \A j \in hits : k <= j]]

\* _handle_cancel_selection without line 667: the card stays the selected one
_handle_cancel_selection_keep_card(u) ==
    _update_displayed_info(
        [u EXCEPT !.asset_filter_widget = FALSE,
                  !.asset_filter_combo = clear(u.asset_filter_combo),
                  !.material_combo = clear(u.material_combo),
                  !.render_combo = clear(u.render_combo),
                  !.current_version_history = <<>>])

\* _handle_cancel_selection whose loop of line 669 leaves render_combo out
_handle_cancel_selection_keep_render(u) ==
    LET w == u.currently_selected_widget
        u1 == IF w # 0
              THEN [u EXCEPT !.cards[w].is_selected = FALSE, !.currently_selected_widget = 0]
              ELSE u
    IN  _update_displayed_info(
            [u1 EXCEPT !.asset_filter_widget = FALSE,
                       !.asset_filter_combo = clear(u1.asset_filter_combo),
                       !.material_combo = clear(u1.material_combo),
                       !.current_version_history = <<>>])

\* _handle_cancel_selection without line 671: the history stays
_handle_cancel_selection_keep_history(u) ==
    LET w == u.currently_selected_widget
        u1 == IF w # 0
              THEN [u EXCEPT !.cards[w].is_selected = FALSE, !.currently_selected_widget = 0]
              ELSE u
    IN  _update_displayed_info(
            [u1 EXCEPT !.asset_filter_widget = FALSE,
                       !.asset_filter_combo = clear(u1.asset_filter_combo),
                       !.material_combo = clear(u1.material_combo),
                       !.render_combo = clear(u1.render_combo)])

\* _handle_cancel_selection
_handle_cancel_selection(u) ==
    LET w == u.currently_selected_widget
        u1 == IF w # 0
              THEN [u EXCEPT !.cards[w].is_selected = FALSE, !.currently_selected_widget = 0]
              ELSE u
    IN  _update_displayed_info(
            [u1 EXCEPT !.asset_filter_widget = FALSE,
                       !.asset_filter_combo = clear(u1.asset_filter_combo),
                       !.material_combo = clear(u1.material_combo),
                       !.render_combo = clear(u1.render_combo),
                       !.current_version_history = <<>>])

\* list.sort(key=created_at) read backwards
SortNewestFirst_Backwards(vs) == [k \in 1..Len(vs) |-> vs[Len(vs) + 1 - k]]

\* list.sort(key=created_at, reverse=True): stable, newest first
RECURSIVE SortNewestFirst(_)
SortNewestFirst(vs) ==
    IF vs = <<>> THEN <<>>
    ELSE LET top == {k \in 1..Len(vs) : \A j \in 1..Len(vs) : vs[j].created_at <= vs[k].created_at}
             k == CHOOSE a \in top : \A b \in top : a <= b
         IN  <<vs[k]>> \o SortNewestFirst(SubSeq(vs, 1, k - 1) \o Drop(vs, k + 1))

\* line 735 without its format test
HasFormat_Any(v, fmt) == TRUE

\* line 735: has the version a path of format fmt
HasFormat(v, fmt) ==
    \E k \in 1..Len(v.sg_path_to_geometry) : _get_file_format(v.sg_path_to_geometry[k]) = fmt

\* lines 757-764: the label of a version entry
DisplayCode(v, fmt) ==
    LET paths == v.sg_path_to_geometry
        hits == {k \in 1..Len(paths) : _get_file_format(paths[k]) = fmt}
    IN  IF hits = {} THEN v.code
        ELSE LET pv == _extract_version_from_path(paths[CHOOSE k \in hits : \A j \in hits : k <= j])
             IN  IF pv # <<>> THEN SubVersion(v.code, pv) ELSE v.code

\* lines 757-764 attaching a copy of the record that carries the label as code
RECURSIVE AddVersions_Relabelled(_, _, _)
AddVersions_Relabelled(cb, vs, fmt) ==
    IF vs = <<>> THEN cb
    ELSE AddVersions_Relabelled(
             addItem(cb, DisplayCode(Head(vs), fmt), [Head(vs) EXCEPT !.code = DisplayCode(Head(vs), fmt)]),
             Tail(vs), fmt)

\* lines 757-764 with every added entry made the current one
RECURSIVE AddVersions_LastCurrent(_, _, _)
AddVersions_LastCurrent(cb, vs, fmt) ==
    IF vs = <<>> THEN cb
    ELSE AddVersions_LastCurrent(
             [items |-> Append(cb.items, DisplayCode(Head(vs), fmt)),
              data |-> Append(cb.data, Head(vs)), index |-> Len(cb.items)],
             Tail(vs), fmt)

\* lines 757-764: one entry a version, the record as its userData
RECURSIVE AddVersions(_, _, _)
AddVersions(cb, vs, fmt) ==
    IF vs = <<>> THEN cb
    ELSE AddVersions(addItem(cb, DisplayCode(Head(vs), fmt), Head(vs)), Tail(vs), fmt)

\* line 736 without set(): one entry per record that has a name
SubAssetNames_PerRecord(vers_in_fmt) ==
    LET named == SelectSeq(vers_in_fmt, LAMBDA v : v.asset_name # NoneVal /\ v.asset_name.s # <<>>)
    IN  [k \in 1..Len(named) |-> named[k].asset_name.s]

\* line 736: the sub-asset names of the versions, distinct and sorted
SubAssetNames(vers_in_fmt) ==
    sorted({vers_in_fmt[k].asset_name.s :
               k \in {j \in 1..Len(vers_in_fmt) :
                        /\ vers_in_fmt[j].asset_name # NoneVal
                        /\ vers_in_fmt[j].asset_name.s # <<>>}})

\* _update_dependent_filters
_update_dependent_filters(u) ==
    LET fmt == currentText(u.render_combo)
        hist == u.current_version_history
    IN  IF hist = <<>> THEN u
        ELSE
        LET vers_in_fmt == SelectSeq(hist, LAMBDA v : HasFormat(v, fmt))
            assets == SubAssetNames(vers_in_fmt)
            prev == currentText(u.asset_filter_combo)
            filled == addItem(addItems(EmptyCombo, assets), NO_ASSET_FILTER_TAG, NoneVal)
            asset_combo == IF assets # <<>>
                           THEN IF prev # <<>> THEN setCurrentText(filled, prev) ELSE filled
                           ELSE EmptyCombo
            visible == assets # <<>>
            sel_asset == IF visible THEN currentText(asset_combo) ELSE <<>>
            final_vers ==
                IF sel_asset # <<>>
                THEN IF sel_asset = NO_ASSET_FILTER_TAG
                     THEN SelectSeq(vers_in_fmt, LAMBDA v : v.asset_name = NoneVal)
                     ELSE SelectSeq(vers_in_fmt, LAMBDA v : v.asset_name = StrVal(sel_asset))
                ELSE vers_in_fmt
        IN  _update_displayed_info(
                [u EXCEPT !.asset_filter_widget = visible,
                          !.asset_filter_combo = asset_combo,
                          !.material_combo = AddVersions(EmptyCombo, SortNewestFirst(final_vers), fmt)])


\* what the history query of _get_version_history_from_shotgun may return
\* when it does not raise: rows of the project linked to the entity whose
\* code contains "_<task>_", at most n of them, newest first
HistoryAnswers(rows, pid, ent, task, n) ==
    LET match == {row \in rows : /\ row.project = pid
                                 /\ row.entity # NoneVal
                                 /\ row.entity.type = ent.type
                                 /\ row.entity.id = ent.id
                                 /\ contains(lower(row.code), lower(<<"_">> \o task \o <<"_">>))}
    IN  {SortNewestFirst(q) : q \in DistinctSeqs(match, n)}

\* the history answers the panel's store may give, by project, entity and task
PanelEntities == {EntityA, EntityB, EntityC, EntityS}
PanelTasks == {S_mdl, S_anim}
PanelHistories ==
    [k \in {1, 2} \X PanelEntities \X PanelTasks |->
        HistoryAnswers(PanelRows, k[1], k[2], k[3], MaxHistory)]

\* the task the history query filters by (line 699)
CurrentTask(u) ==
    IF u.top_tab_bar = 0 THEN currentText(u.task_combo_assets) ELSE currentText(u.task_combo_shots)

\* _get_version_history_from_shotgun(widget): raises and answer are the
\* store's outcome for the query
_get_version_history_from_shotgun(u, w, raises, answer) ==
    IF ~u.sg THEN <<>>
    ELSE IF u.HAL_PROJECT_SGID = 0 \/ u.cards[w].v.entity = NoneVal THEN <<>>
    ELSE IF raises THEN <<>>
    ELSE answer

\* lines 713-715 with line 714 writing the name of the row's entity
HistoryRecord_Named(row) ==
    [id |-> row.id, code |-> row.code, entity |-> row.entity, created_at |-> row.created_at,
     sg_path_to_geometry |-> _flatten_and_clean_paths(row.sg_path_to_geometry),
     asset_name |-> StrVal(row.entity.name)]

\* lines 713-715: a fetched row as the history keeps it
HistoryRecord(row) ==
    [id |-> row.id, code |-> row.code, entity |-> row.entity, created_at |-> row.created_at,
     sg_path_to_geometry |-> _flatten_and_clean_paths(row.sg_path_to_geometry),
     asset_name |-> NoneVal]

\* the format tokens of a history (lines 712-716)
FormatsOf(hist) ==
    UNION {{_get_file_format(hist[k].sg_path_to_geometry[j]) :
              j \in 1..Len(hist[k].sg_path_to_geometry)} : k \in 1..Len(hist)}

\* lines 721-722
RestoreFormat_Never(cb, cur_fmt) == cb
RestoreFormat_Unset(cb, cur_fmt) ==
    IF cur_fmt # <<>> /\ findText(cb, cur_fmt) # -1 THEN setCurrentText(cb, cur_fmt)
    ELSE setCurrentIndex(cb, -1)
RestoreFormat(cb, cur_fmt) ==
    IF cur_fmt # <<>> /\ findText(cb, cur_fmt) # -1 THEN setCurrentText(cb, cur_fmt) ELSE cb

\* _query_and_populate_all_filters without line 725: the format list is
\* filled and the dependent lists are left as they were
_query_and_populate_all_filters_no_update(u, w, raises, answer) ==
    LET cur_fmt == currentText(u.render_combo)
        cur_ver == currentText(u.material_combo)
        fetched == _get_version_history_from_shotgun(u, w, raises, answer)
        u1 == [u EXCEPT !.current_version_history = fetched]
    IN  IF fetched = <<>> THEN _handle_cancel_selection(u1)
        ELSE
        LET hist == [k \in 1..Len(fetched) |-> HistoryRecord(fetched[k])]
            filled == addItems(EmptyCombo, sorted(FormatsOf(hist)))
            u2 == [u1 EXCEPT !.current_version_history = hist,
                             !.render_combo = RestoreFormat(filled, cur_fmt)]
        IN  IF cur_ver # <<>> /\ findText(u2.material_combo, cur_ver) # -1
            THEN _update_displayed_info(
                     [u2 EXCEPT !.material_combo = setCurrentText(u2.material_combo, cur_ver)])
            ELSE u2

\* _query_and_populate_all_filters(widget)
_query_and_populate_all_filters(u, w, raises, answer) ==
    LET cur_fmt == currentText(u.render_combo)
        cur_ver == currentText(u.material_combo)
        fetched == _get_version_history_from_shotgun(u, w, raises, answer)
        u1 == [u EXCEPT !.current_version_history = fetched]
    IN  IF fetched = <<>> THEN _handle_cancel_selection(u1)
        ELSE
        LET hist == [k \in 1..Len(fetched) |-> HistoryRecord(fetched[k])]
            filled == addItems(EmptyCombo, sorted(FormatsOf(hist)))
            u2 == _update_dependent_filters(
                      [u1 EXCEPT !.current_version_history = hist,
                                 !.render_combo = RestoreFormat(filled, cur_fmt)])
        IN  IF cur_ver # <<>> /\ findText(u2.material_combo, cur_ver) # -1
            \* setCurrentText emits currentIndexChanged: _update_displayed_info runs
            THEN _update_displayed_info(
                     [u2 EXCEPT !.material_combo = setCurrentText(u2.material_combo, cur_ver)])
            ELSE u2

\* _handle_thumbnail_click(widget)
_handle_thumbnail_click(u, w, raises, answer) ==
    LET old == u.currently_selected_widget
        u1 == IF old # 0 THEN [u EXCEPT !.cards[old].is_selected = FALSE] ELSE u
    IN  _query_and_populate_all_filters(
            [u1 EXCEPT !.currently_selected_widget = w, !.cards[w].is_selected = TRUE],
            w, raises, answer)

\* _setup_simple_scroll_content without line 619: the selected widget stays
_setup_simple_scroll_content_keep_selected(u, data) ==
    [u EXCEPT !.cards = [k \in 1..Len(data) |->
                            [v |-> data[k], is_selected |-> FALSE, mouse_press_pos |-> FALSE]]]

\* _setup_simple_scroll_content(data): the gallery is rebuilt, one card a record
_setup_simple_scroll_content(u, data) ==
    [u EXCEPT !.currently_selected_widget = 0,
              !.cards = [k \in 1..Len(data) |-> [v |-> data[k], is_selected |-> FALSE, mouse_press_pos |-> FALSE]]]

\* _apply_filters
_apply_filters(u) ==
    LET txt == lower(u.name_filter_edit)
        all == u.all_versions_for_context
    IN  _setup_simple_scroll_content(u,
            IF txt # <<>> THEN SelectSeq(all, LAMBDA v : contains(lower(v.code), txt)) ELSE all)

\* _update_thumbnail_size(val): the card size is no part of the model's state,
\* the gallery rebuild is
_update_thumbnail_size(u) == _apply_filters(u)

\* lines 598-604: the context and the entity type of a refresh
RefreshContext(u) ==
    LET shot == u.top_tab_bar = 1
        t == IF shot THEN currentText(u.task_combo_shots) ELSE currentText(u.task_combo_assets)
        s == IF shot THEN currentText(u.sequence_combo_shots) ELSE currentText(u.category_combo_assets)
    IN  [etype |-> IF shot THEN "Shot" ELSE "Asset",
         ctx |-> IF t # <<>> /\ s # <<>> THEN t \o <<"/">> \o s ELSE <<>>]

\* line 613: the gallery record of a resolver result
GalleryRecord(v) ==
    [v EXCEPT !.sg_path_to_geometry = _flatten_and_clean_paths(v.sg_path_to_geometry)]

\* _handle_refresh: found is the outcome of find_files, [raised, val]
_handle_refresh(u, found) ==
    LET u1 == _handle_cancel_selection(u)
        c == RefreshContext(u1)
    IN  IF c.ctx = <<>> THEN _setup_simple_scroll_content(u1, <<>>)
        \* except: traceback.print_exc()
        ELSE IF found.raised THEN u1
        ELSE
        LET sd == currentText(u1.shot_combo_shots)
            seq == currentText(u1.sequence_combo_shots)
            vers == IF c.etype = "Shot" /\ sd # <<>> /\ sd # S_All
                    THEN SelectSeq(found.val, LAMBDA v : v.entity.name = seq \o <<"_">> \o sd)
                    ELSE found.val
        IN  _apply_filters([u1 EXCEPT !.all_versions_for_context =
                                          [k \in 1..Len(vers) |-> GalleryRecord(vers[k])]])


\* what the Sequence and Shot queries of _get_sequences_and_shots_from_sg may
\* return: the sequence codes and the shots, each [code, seq]; raising gives
\* the same as the empty answer
NoSequences == [seqs |-> {}, shots |-> {}]
SequenceAnswers == {NoSequences, [seqs |-> {S_sq}, shots |-> {[code |-> Name_sq_010, seq |-> S_sq]}]}

\* _get_sequences_and_shots_from_sg, as the dict zip(seqs, shots) makes of it
_get_sequences_and_shots_from_sg(u, answer) ==
    LET a == IF ~u.sg \/ u.HAL_PROJECT_SGID = 0 THEN NoSequences ELSE answer
    IN  [k \in a.seqs |-> sorted({s.code : s \in {x \in a.shots : x.seq = k}})]

\* _on_sequence_changed
_on_sequence_changed(u) ==
    LET seq == currentText(u.sequence_combo_shots)
        shots == IF seq \in DOMAIN u.shots_data THEN u.shots_data[seq] ELSE <<>>
        prefix == seq \o <<"_">>
        display == {IF startswith(shots[k], prefix) THEN Drop(shots[k], Len(prefix) + 1)
                    ELSE shots[k] : k \in 1..Len(shots)}
    IN  [u EXCEPT !.shot_combo_shots = addItems(addItem(EmptyCombo, S_All, NoneVal), sorted(display))]

\* _refresh_sequence_data_for_current_project
_refresh_sequence_data_for_current_project(u, answer) ==
    LET data == _get_sequences_and_shots_from_sg(u, answer)
    IN  _on_sequence_changed(
            [u EXCEPT !.task_combo_shots = addItems(EmptyCombo, SHOT_TYPES),
                      !.shots_data = data,
                      !.sequence_combo_shots = addItems(EmptyCombo, sorted(DOMAIN data))])

\* _on_main_tab_changed(index)
_on_main_tab_changed(u, index, answer) ==
    LET u1 == _setup_simple_scroll_content(_handle_cancel_selection([u EXCEPT !.top_tab_bar = index]), <<>>)
    IN  IF index = 0
        THEN [u1 EXCEPT !.task_combo_assets = addItems(EmptyCombo, ASSET_TYPES),
                        !.category_combo_assets = addItems(EmptyCombo, HAL_CATEGORY_TYPES)]
        ELSE _refresh_sequence_data_for_current_project(u1, answer)

\* lines 545-547 without line 548: the pick-lists move, the context stays
SetProject_KeepContext(u, index) ==
    [u EXCEPT !.project_combo_assets = index, !.project_combo_shots = index]

\* set_project_context and the two project pick-lists (lines 545-548)
SetProject(u, index) ==
    [u EXCEPT !.project_combo_assets = index,
              !.project_combo_shots = index,
              !.HAL_PROJECT_SGID = u.project_list[index + 1].id,
              !.HAL_PROJECT = u.project_list[index + 1].name]

\* _on_project_changed(index), up to its call of _handle_refresh
ProjectChangedBeforeRefresh(u, index, answer) ==
    _refresh_sequence_data_for_current_project(
        _setup_simple_scroll_content(SetProject(u, index), <<>>), answer)

\* _on_project_changed(index): found is the outcome of its find_files call
_on_project_changed(u, index, answer, found) ==
    IF index < 0 \/ index >= Len(u.project_list) THEN u
    ELSE _handle_refresh(ProjectChangedBeforeRefresh(u, index, answer), found)


\* -------------------------------------------------- calls of find_files
\* no helper call: [fn, arg, done, out], and the result of the function
\* applied again to out
NoHelperCall ==
    [fn |-> "", arg |-> <<>>, done |-> FALSE, out |-> <<>>, reapplied |-> FALSE, again |-> <<>>]

NoCall == [called |-> FALSE, out |-> [raised |-> FALSE, val |-> <<>>]]

\* the outcomes the store may give to the queries of one find_files call: no
\* query is issued without a project, every query raises without a handle
StoreOutcomes(rows, pid, sg, ctx, etype, n) ==
    IF pid = 0 \/ ~sg THEN {[find_one |-> "raise", find_raises |-> TRUE, answer |-> <<>>]}
    ELSE LET lookups == IF etype = "Shot" /\ Len(split(ctx, "/")) = 2
                        THEN {"raise", "none", "found"} ELSE {"none"}
         IN  UNION {{[find_one |-> o, find_raises |-> TRUE, answer |-> <<>>]} \cup
                    {[find_one |-> o, find_raises |-> FALSE, answer |-> a] :
                        a \in StoreAnswers(rows, pid, find_files_filters(sg, ctx, etype, o), n)}
                    : o \in lookups}

\* a call of find_files with the store's outcome o, not yet run
Prepared(pid, sg, ctx, etype, o) ==
    [called |-> FALSE, pid |-> pid, sg |-> sg, ctx |-> ctx, etype |-> etype,
     find_one |-> o.find_one, find_raises |-> o.find_raises, answer |-> o.answer,
     out |-> NoCall.out, reapplied |-> FALSE, again |-> <<>>]

\* the call run: out is what find_files gives
Run(c) ==
    [c EXCEPT !.called = TRUE,
              !.out = find_files(c.pid, c.sg, c.ctx, c.etype, c.find_raises, c.answer)]

\* the contexts the panel's pick-lists give a refresh (RefreshContext)
Ctx_mdl_cgfx == S_mdl \o <<"/">> \o S_cgfx
Ctx_anim_sq == S_anim \o <<"/">> \o S_sq
PanelContexts == {[etype |-> "Asset", ctx |-> Ctx_mdl_cgfx], [etype |-> "Shot", ctx |-> Ctx_anim_sq]}
PanelProjectIds == {0, 1, 2}

\* what find_files may give the panel, by project, handle and context: one
\* result for every outcome of the store
PanelFindFiles ==
    [k \in PanelProjectIds \X BOOLEAN \X PanelContexts |->
        {Run(Prepared(k[1], k[2], k[3].ctx, k[3].etype, o)).out :
            o \in StoreOutcomes(PanelRows, k[1], k[2], k[3].ctx, k[3].etype, MaxBatch)}]

\* the results the find_files call of a refresh of panel u may have (NoCall.out
\* stands for no call: a refresh without a context returns before it)
RefreshResults(u) ==
    LET c == RefreshContext(u)
    IN  IF c.ctx = <<>> THEN {NoCall.out}
        ELSE PanelFindFiles[<<u.HAL_PROJECT_SGID, u.sg, c>>]

\* ------------------------------------------------------------ the panel
Name_p1 == <<"p","1">>
Name_p2 == <<"p","2">>
Projects == << [id |-> 1, name |-> Name_p1], [id |-> 2, name |-> Name_p2] >>
\* the texts the user types in the search box
SearchTexts == {<<>>, S_v2}

\* __init__ up to setup_ui: env_pid is the project id of the environment.
\* HOST is the module's host (lines 12-23); the handlers of the filters never
\* read it, the transfer handlers do, and their specification draws it.
Blank(sg, env_pid) ==
    [sg |-> sg, HAL_PROJECT_SGID |-> env_pid, HAL_PROJECT |-> <<>>,
     project_list |-> <<>>, project_combo_assets |-> -1, project_combo_shots |-> -1,
     top_tab_bar |-> 0,
     task_combo_assets |-> EmptyCombo, category_combo_assets |-> EmptyCombo,
     task_combo_shots |-> EmptyCombo, sequence_combo_shots |-> EmptyCombo,
     shot_combo_shots |-> EmptyCombo, shots_data |-> <<>>,
     name_filter_edit |-> <<>>,
     all_versions_for_context |-> <<>>, cards |-> <<>>, currently_selected_widget |-> 0,
     current_version_history |-> <<>>,
     render_combo |-> EmptyCombo, asset_filter_combo |-> EmptyCombo,
     asset_filter_widget |-> FALSE, material_combo |-> EmptyCombo,
     file_path_label |-> <<"S","e","l","e","c","t">>,
     HOST |-> "standalone"]

\* _populate_projects: projects is get_active_projects() sorted by name, idx
\* the entry the environment names.  Its refresh finds no task yet (the task
\* pick-list of the asset tab is filled later), so it calls no find_files.
_populate_projects(u, projects, idx, answer) ==
    IF projects = <<>> THEN u
    ELSE _on_project_changed([u EXCEPT !.project_list = projects], idx, answer, NoCall.out)

\* __init__
Construct(sg, env_pid, projects, idx, answer) ==
    _on_main_tab_changed(_populate_projects(Blank(sg, env_pid), projects, idx, answer), 0, NoSequences)

\* what a handler handed to the host: nothing, or a drag, an import or a
\* reference made from the drag data
NoTransfer == [kind |-> "none", data |-> <<>>]
Transfer(kind, data) == [kind |-> kind, data |-> data]

\* last: the handler that ran and the format that was selected when it started
\* (for a gallery click the local cur_fmt of _query_and_populate_all_filters,
\* line 706)
Last(op, u) == [op |-> op, cur_fmt |-> currentText(u.render_combo), out |-> NoTransfer]

\* no handler has run
NoHandler == [op |-> "init", cur_fmt |-> <<>>, out |-> NoTransfer]

Init ==
    /\ \E sg \in BOOLEAN :
         \E projects \in (IF sg THEN {<<>>, Projects} ELSE {<<>>}) :
           \E env_pid \in (IF projects = <<>> THEN {0, Projects[1].id} ELSE {0}) :
             \E idx \in (IF projects = <<>> THEN {0} ELSE 0..(Len(projects) - 1)) :
               \E answer \in (IF projects = <<>> THEN {NoSequences} ELSE SequenceAnswers) :
                 ui = Construct(sg, env_pid, projects, idx, answer)
    /\ last = NoHandler
    /\ ff = NoCall
    /\ pf = NoHelperCall

\* a gallery card is clicked
HandleThumbnailClick ==
    \E w \in 1..Len(ui.cards) :
      \E raises \in BOOLEAN :
        \E answer \in (IF raises \/ ~ui.sg \/ ui.HAL_PROJECT_SGID = 0 THEN {<<>>}
                       ELSE PanelHistories[<<ui.HAL_PROJECT_SGID, ui.cards[w].v.entity,
                                             CurrentTask(ui)>>]) :
          /\ ui' = _handle_thumbnail_click(ui, w, raises, answer)
          /\ last' = Last("click", ui)
          /\ UNCHANGED <<ff, pf>>

\* the user picks another format: currentIndexChanged -> _update_dependent_filters
RenderComboChanged ==
    \E i \in 0..(Len(ui.render_combo.items) - 1) :
        /\ i # ui.render_combo.index
        /\ ui' = _update_dependent_filters([ui EXCEPT !.render_combo = setCurrentIndex(ui.render_combo, i)])
        /\ last' = Last("format", ui)
        /\ UNCHANGED <<ff, pf>>

\* the user picks another version: currentIndexChanged -> _update_displayed_info
MaterialComboChanged ==
    \E i \in 0..(Len(ui.material_combo.items) - 1) :
        /\ i # ui.material_combo.index
        /\ ui' = _update_displayed_info([ui EXCEPT !.material_combo = setCurrentIndex(ui.material_combo, i)])
        /\ last' = Last("version", ui)
        /\ UNCHANGED <<ff, pf>>

\* "Clear Selection"
CancelSelection ==
    /\ ui' = _handle_cancel_selection(ui)
    /\ last' = Last("clear", ui)
    /\ UNCHANGED <<ff, pf>>

\* "REFRESH"
HandleRefresh ==
    \E found \in RefreshResults(ui) :
        /\ ui' = _handle_refresh(ui, found)
        /\ last' = Last("refresh", ui)
        /\ UNCHANGED <<ff, pf>>

\* the user switches tab
MainTabChanged ==
    \E index \in {0, 1} \ {ui.top_tab_bar} :
      \E answer \in (IF index = 0 THEN {NoSequences} ELSE SequenceAnswers) :
        /\ ui' = _on_main_tab_changed(ui, index, answer)
        /\ last' = Last("tab", ui)
        /\ UNCHANGED <<ff, pf>>

\* the user picks another project in the project pick-list of the shown tab
ProjectChanged ==
    \E index \in 0..(Len(ui.project_list) - 1) :
      \E answer \in SequenceAnswers :
        \E found \in RefreshResults(ProjectChangedBeforeRefresh(ui, index, answer)) :
          /\ index # (IF ui.top_tab_bar = 0 THEN ui.project_combo_assets ELSE ui.project_combo_shots)
          /\ ui' = _on_project_changed(ui, index, answer, found)
          /\ last' = Last("project", ui)
          /\ UNCHANGED <<ff, pf>>

\* the user edits the search text: textChanged -> _apply_filters
SearchTextChanged ==
    \E txt \in SearchTexts \ {ui.name_filter_edit} :
        /\ ui' = _apply_filters([ui EXCEPT !.name_filter_edit = txt])
        /\ last' = Last("search", ui)
        /\ UNCHANGED <<ff, pf>>

\* the user moves the size slider: valueChanged -> _update_thumbnail_size
ThumbnailSizeChanged ==
    /\ ui' = _update_thumbnail_size(ui)
    /\ last' = Last("size", ui)
    /\ UNCHANGED <<ff, pf>>

\* the user picks another entry of the shot pick-list (no handler is connected)
ShotComboChanged ==
    \E i \in 0..(Len(ui.shot_combo_shots.items) - 1) :
        /\ ui.top_tab_bar = 1
        /\ i # ui.shot_combo_shots.index
        /\ ui' = [ui EXCEPT !.shot_combo_shots = setCurrentIndex(ui.shot_combo_shots, i)]
        /\ last' = Last("shot", ui)
        /\ UNCHANGED <<ff, pf>>

Next ==
    \/ HandleThumbnailClick
    \/ RenderComboChanged
    \/ MaterialComboChanged
    \/ CancelSelection
    \/ HandleRefresh
    \/ MainTabChanged
    \/ ProjectChanged
    \/ SearchTextChanged
    \/ ThumbnailSizeChanged
    \/ ShotComboChanged

Spec == Init /\ [][Next]_vars

\* ------------------------------------------------------- the transfers
\* update_drag_info: the drag data are read off the widgets.  Every handler
\* that reads current_drag_data calls update_drag_info straight before
\* (assetCard 209-210, ui 788-789, 799-800, 813-814), so the data are the
\* handler's value here and no field of the panel.
update_drag_info(u) ==
    LET is_shot_tab == u.top_tab_bar = 1
        is_mm_context == is_shot_tab /\ currentText(u.task_combo_shots) = <<"m","m">>
        shown == IF u.asset_filter_widget THEN currentText(u.asset_filter_combo) ELSE <<>>
        asset_filter_name == IF shown = NO_ASSET_FILTER_TAG THEN <<>> ELSE shown
    IN  [version_name |-> currentText(u.material_combo),
         asset_filter_name |-> asset_filter_name,
         file_path |-> u.file_path_label,
         format |-> currentText(u.render_combo),
         dcc |-> u.HOST,
         is_mm_context |-> is_mm_context]

\* a transfer handler gives the panel it leaves and what it handed to the host
Handled(u, out) == [ui |-> u, out |-> out]

\* the test of the path left out: every path is transferred
HasFilePath_Always(data) == TRUE

\* the test of lines 213 (assetCard), 790 and 801: is there a path to transfer
HasFilePath(data) == data.file_path # <<>> /\ data.file_path # S_NA

\* _start_drag from line 209 on, the card being the selected one: the drag
\* data are read and the drag is made when there is a path
DragSelected(u) ==
    LET drag_data == update_drag_info(u)
    IN  IF ~HasFilePath(drag_data) THEN Handled(u, NoTransfer)
        ELSE Handled(u, Transfer("drag", drag_data))

\* ShotgunAssetCard._start_drag on card w: raises and answer are the store's
\* outcome for the history query of the selection it makes when the card is
\* not the selected one
_start_drag(u, w, raises, answer) ==
    DragSelected(IF u.currently_selected_widget # w
                 THEN _handle_thumbnail_click(u, w, raises, answer) ELSE u)

\* ShotgunAssetCard.mousePressEvent on card w (left button)
mousePressEvent(u, w, raises, answer) ==
    [_handle_thumbnail_click(u, w, raises, answer) EXCEPT !.cards[w].mouse_press_pos = TRUE]

\* line 193 of mouseMoveEvent: the press position of card w is forgotten once
\* the drag r is over
PressReset(r, w) == Handled([r.ui EXCEPT !.cards[w].mouse_press_pos = FALSE], r.out)

\* ShotgunAssetCard.mouseMoveEvent on card w, past the drag distance
mouseMoveEvent(u, w, raises, answer) ==
    PressReset(_start_drag(u, w, raises, answer), w)

\* ShotgunAssetCard.mouseReleaseEvent on card w
mouseReleaseEvent(u, w) == [u EXCEPT !.cards[w].mouse_press_pos = FALSE]

\* _handle_manual_import_maya
_handle_manual_import_maya(u) ==
    IF u.HOST # "maya" THEN Handled(u, NoTransfer)
    ELSE LET data == update_drag_info(u)
         IN  IF ~HasFilePath(data) THEN Handled(u, NoTransfer)
             ELSE Handled(u, Transfer("import", data))

\* _handle_reference_maya
_handle_reference_maya(u) ==
    IF u.HOST # "maya" THEN Handled(u, NoTransfer)
    ELSE LET data == update_drag_info(u)
         IN  IF ~HasFilePath(data) THEN Handled(u, NoTransfer)
             ELSE Handled(u, Transfer("reference", data))

\* _handle_manual_import_houdini: selected tells whether a node is selected;
\* the handler shows a message with the path and hands nothing to the host
_handle_manual_import_houdini(u, selected) ==
    IF u.HOST # "houdini" \/ ~selected THEN Handled(u, NoTransfer)
    ELSE Handled(u, NoTransfer)

\* the hosts (lines 12-23)
Hosts == {"standalone", "maya", "houdini"}

\* the outcomes the store may give to the history query of a selection of card w
HistoryOutcomes(u, w) ==
    {[raises |-> TRUE, answer |-> <<>>]} \cup
    {[raises |-> FALSE, answer |-> a] :
        a \in (IF ~u.sg \/ u.HAL_PROJECT_SGID = 0 THEN {<<>>}
               ELSE PanelHistories[<<u.HAL_PROJECT_SGID, u.cards[w].v.entity, CurrentTask(u)>>])}

\* is the left button down on a card
Pressed(u) == {k \in 1..Len(u.cards) : u.cards[k].mouse_press_pos}

InitTransfer ==
    /\ \E h \in Hosts :
         \E projects \in {<<>>, Projects} :
           \E idx \in (IF projects = <<>> THEN {0} ELSE 0..(Len(projects) - 1)) :
             \E answer \in (IF projects = <<>> THEN {NoSequences} ELSE SequenceAnswers) :
               ui = [Construct(TRUE, 0, projects, idx, answer) EXCEPT !.HOST = h]
    /\ last = NoHandler
    /\ ff = NoCall
    /\ pf = NoHelperCall

\* the transfer handler op has run with result r: the panel it leaves and
\* what it handed to the host
Hands(op, r) ==
    /\ ui' = r.ui
    /\ last' = [Last(op, ui) EXCEPT !.out = r.out]
    /\ UNCHANGED <<ff, pf>>

\* the left button goes down on a card: the card emits clicked
MousePress ==
    \E w \in 1..Len(ui.cards) :
      \E o \in HistoryOutcomes(ui, w) :
        /\ Pressed(ui) = {}
        /\ ui' = mousePressEvent(ui, w, o.raises, o.answer)
        /\ last' = Last("click", ui)
        /\ UNCHANGED <<ff, pf>>

\* the pointer leaves the pressed card with the button down: the drag starts
MouseMove ==
    \E w \in Pressed(ui) :
      \E o \in (IF ui.currently_selected_widget # w THEN HistoryOutcomes(ui, w)
                ELSE {[raises |-> FALSE, answer |-> <<>>]}) :
        Hands("drag", mouseMoveEvent(ui, w, o.raises, o.answer))

\* the left button goes up on the pressed card
MouseRelease ==
    \E w \in Pressed(ui) :
        /\ ui' = mouseReleaseEvent(ui, w)
        /\ last' = Last("release", ui)
        /\ UNCHANGED <<ff, pf>>

\* "Import" of the Maya group, shown in Maya only (line 386)
ManualImportMaya ==
    /\ ui.HOST = "maya"
    /\ Hands("import", _handle_manual_import_maya(ui))

\* "Reference" of the Maya group, shown in Maya only (line 386)
ReferenceMaya ==
    /\ ui.HOST = "maya"
    /\ Hands("reference", _handle_reference_maya(ui))

\* "Import" of the Houdini group, shown in Houdini only (line 385)
ManualImportHoudini ==
    \E selected \in BOOLEAN :
        /\ ui.HOST = "houdini"
        /\ Hands("import_houdini", _handle_manual_import_houdini(ui, selected))

NextTransfer ==
    \/ MousePress
    \/ MouseMove
    \/ MouseRelease
    \/ ManualImportMaya
    \/ ReferenceMaya
    \/ ManualImportHoudini
    \/ RenderComboChanged
    \/ MaterialComboChanged
    \/ CancelSelection
    \/ HandleRefresh
    \/ MainTabChanged
    \/ ProjectChanged
    \/ SearchTextChanged
    \/ ThumbnailSizeChanged
    \/ ShotComboChanged

SpecTransfer == InitTransfer /\ [][NextTransfer]_vars

\* ------------------------------------------------------ the shot filter
\* The shot pick-list and the shot filter of a refresh, on a store with two
\* sequences and shots whose codes do and do not start with their sequence's
\* code.
S_sr == <<"s","r">>
Name_sh020 == <<"s","h","0","2","0">>
Name_sr_010 == <<"s","r","_","0","1","0">>
EntityT == [type |-> "Shot", id |-> 6, name |-> Name_sh020]
EntityU == [type |-> "Shot", id |-> 7, name |-> Name_sr_010]
V16 == Row(16, 1, Name_sh020 \o <<"_">> \o S_anim \o <<"_","v","1">>, EntityT, S_sq,
           ListVal(<<StrVal(Path_s1_abc)>>), 16)
V17 == Row(17, 1, Name_sr_010 \o <<"_">> \o S_anim \o <<"_","v","1">>, EntityU, S_sr,
           ListVal(<<StrVal(Path_s1_abc)>>), 17)
ShotRows == {V6, V16, V17}

\* the answers of the Sequence and Shot queries: both sequences, the shot of
\* the second and any of the shots of the first
ShotSequenceAnswers ==
    {[seqs |-> {S_sq, S_sr}, shots |-> sh \cup {[code |-> Name_sr_010, seq |-> S_sr]}] :
        sh \in SUBSET {[code |-> Name_sq_010, seq |-> S_sq], [code |-> Name_sh020, seq |-> S_sq]}}

\* the panel after __init__ and a switch to the shot tab
InitShots ==
    /\ \E a \in ShotSequenceAnswers :
         ui = _on_main_tab_changed(Construct(TRUE, 0, Projects, 0, a), 1, a)
    /\ last = NoHandler
    /\ ff = NoCall
    /\ pf = NoHelperCall

\* the user picks another sequence: currentIndexChanged -> _on_sequence_changed
SequenceComboChanged ==
    \E i \in 0..(Len(ui.sequence_combo_shots.items) - 1) :
        /\ i # ui.sequence_combo_shots.index
        /\ ui' = _on_sequence_changed(
                     [ui EXCEPT !.sequence_combo_shots = setCurrentIndex(ui.sequence_combo_shots, i)])
        /\ last' = Last("sequence", ui)
        /\ UNCHANGED <<ff, pf>>

\* "REFRESH" on the shot tab: ff keeps the find_files call the refresh makes
RefreshShots ==
    LET c == RefreshContext(ui)
    IN  \E o \in StoreOutcomes(ShotRows, ui.HAL_PROJECT_SGID, ui.sg, c.ctx, c.etype, MaxBatch) :
          LET call == Run(Prepared(ui.HAL_PROJECT_SGID, ui.sg, c.ctx, c.etype, o))
          IN  /\ c.ctx # <<>>
              /\ ui' = _handle_refresh(ui, call.out)
              /\ ff' = call
              /\ last' = Last("refresh", ui)
              /\ UNCHANGED pf

NextShots ==
    \/ SequenceComboChanged
    \/ ShotComboChanged
    \/ RefreshShots

SpecShots == InitShots /\ [][NextShots]_vars

\* --------------------------------------------------------- the resolver
\* The calls of find_files the resolver's specification draws: without and
\* with a project, without and with a handle, for no context, an asset
\* context and a shot context, under every outcome of the store.
ResolverProjectIds == {0, 1}
ResolverContexts == {[etype |-> "", ctx |-> <<>>],
                     [etype |-> "Asset", ctx |-> Ctx_mdl_cgfx],
                     [etype |-> "Shot", ctx |-> Ctx_anim_sq]}

InitResolver ==
    /\ ui = Blank(FALSE, 0)
    /\ last = NoHandler
    /\ pf = NoHelperCall
    /\ \E pid \in ResolverProjectIds :
         \E sg \in BOOLEAN :
           \E c \in ResolverContexts :
             \E o \in StoreOutcomes(ResolverRows, pid, sg, c.ctx, c.etype, MaxBatch) :
               ff = Prepared(pid, sg, c.ctx, c.etype, o)

\* find_files is called
CallFindFiles ==
    /\ ~ff.called
    /\ ff' = Run(ff)
    /\ UNCHANGED <<ui, last, pf>>

\* the latest selection (lines 132-141) is applied to the list a call returned
ReapplySelection ==
    /\ ff.called /\ ~ff.out.raised /\ ~ff.reapplied
    /\ ff' = [ff EXCEPT !.reapplied = TRUE, !.again = LatestSelection(ff.out.val, <<>>)]
    /\ UNCHANGED <<ui, last, pf>>

NextResolver ==
    \/ CallFindFiles
    \/ ReapplySelection

SpecResolver == InitResolver /\ [][NextResolver]_vars

\* ---------------------------------------------------------- the cascade
\* _update_dependent_filters is written for histories whose records may carry
\* a sub-asset name.  The panel's own history load writes None on every
\* record (line 714), so the cascade's specification starts from histories
\* that carry names and runs the handlers of the three pick-lists on them.
S_propA == <<"p","r","o","p","A">>
S_propB == <<"p","r","o","p","B">>
CascadeRecord(id, created_at, paths, asset_name) ==
    [id |-> id, code |-> Code_mdl_v1, entity |-> EntityA, created_at |-> created_at,
     sg_path_to_geometry |-> paths, asset_name |-> asset_name]
CascadeRecords ==
    { CascadeRecord(21, 5, <<Path_a1_abc, Path_a1_usd>>, StrVal(S_propA)),
      CascadeRecord(22, 4, <<Path_a2_usd>>, StrVal(S_propB)),
      CascadeRecord(23, 3, <<Path_a2_abc>>, NoneVal),
      CascadeRecord(24, 3, <<Path_a1_abc, Path_a3_usd>>, StrVal(S_propA)),
      CascadeRecord(25, 1, <<Path_a3_usd>>, NoneVal) }

\* the histories: newest first, as the history query orders them
CascadeHistories ==
    {h \in DistinctSeqs(CascadeRecords, MaxHistory) :
        /\ h # <<>>
        /\ \A i \in 1..Len(h) : \A j \in i..Len(h) : h[i].created_at >= h[j].created_at}

\* lines 718-725 on a history that carries sub-asset names
InitCascade ==
    /\ \E h \in CascadeHistories :
         ui = _update_dependent_filters(
                  [Blank(TRUE, 1) EXCEPT !.current_version_history = h,
                                         !.render_combo = addItems(EmptyCombo, sorted(FormatsOf(h)))])
    /\ last = NoHandler
    /\ ff = NoCall
    /\ pf = NoHelperCall

\* the user picks another sub-asset: currentIndexChanged -> _update_dependent_filters
AssetFilterComboChanged ==
    \E i \in 0..(Len(ui.asset_filter_combo.items) - 1) :
        /\ ui.asset_filter_widget
        /\ i # ui.asset_filter_combo.index
        /\ ui' = _update_dependent_filters(
                     [ui EXCEPT !.asset_filter_combo = setCurrentIndex(ui.asset_filter_combo, i)])
        /\ last' = Last("sub-asset", ui)
        /\ UNCHANGED <<ff, pf>>

NextCascade ==
    \/ RenderComboChanged
    \/ AssetFilterComboChanged
    \/ MaterialComboChanged

SpecCascade == InitCascade /\ [][NextCascade]_vars

\* ---------------------------------------------------------- the helpers
\* The helper functions are run on inputs drawn from bounded sets: the
\* strings made of at most n tokens, and values nested from them.
RECURSIVE TokenStrings(_, _)
TokenStrings(tokens, n) ==
    IF n = 0 THEN {<<>>}
    ELSE LET shorter == TokenStrings(tokens, n - 1)
         IN  shorter \cup {x[1] \o x[2] : x \in shorter \X tokens}

\* the pieces of a path field: brackets, a comma, a space, a bare name and a
\* quoted string
PathTokens == { <<"[">>, <<"]">>, <<"(">>, <<")">>, <<",">>, <<" ">>, <<"a">>, <<"'","b","'">> }
PathStrings == TokenStrings(PathTokens, MaxTokens)

\* the elements of the nested inputs: plain, padded and quoted strings, a
\* string-encoded list, a malformed literal, a string-encoded nested list, a
\* string-encoded list within quotes, a list, a tuple, and values of other
\* types
S_a == <<"a">>
S_b == <<"b">>
PathElements ==
    { StrVal(S_a), StrVal(<<" ","'","b","'"," ">>), StrVal(<<"[","'","b","'","]">>),
      StrVal(<<"[","a","]">>), StrVal(<<"[","[","'","b","'","]",",","'","a","'","]">>),
      StrVal(<<"'","[","'","b","'","]","'">>),
      ListVal(<<StrVal(S_a)>>), TupleVal(<<StrVal(S_b), ListVal(<<StrVal(S_a)>>)>>),
      NoneVal, IntVal(7) }
PathValues ==
    {StrVal(s) : s \in PathStrings}
        \cup PathElements
        \cup {ListVal(q) : q \in DistinctSeqs(PathElements, 2)}
        \cup {TupleVal(q) : q \in DistinctSeqs(PathElements, 2)}

HelperCall(fn, arg) ==
    [fn |-> fn, arg |-> arg, done |-> FALSE, out |-> <<>>, reapplied |-> FALSE, again |-> <<>>]
Returned(out) == [pf EXCEPT !.done = TRUE, !.out = out]

\* the pieces of a version code: task tokens of both entity types, in both
\* cases, and a separator
CodeTokens == { S_mdl, <<"R","i","g">>, <<"a","s","s","y">>, S_anim, <<"C","o","m","p">>,
                S_cgfx, <<"-","s","e","t","u","p">>, <<"_">> }
CodeStrings == TokenStrings(CodeTokens, MaxTokens)
EntityTypes == {"Asset", "Shot", "Sequence"}

\* the pieces of a code around its version segment
VersionTokens == { S_a, <<"_">>, <<"_","v">>, <<"_","v","0">>, <<"1","2">>, <<"_","v","3">> }
VersionStrings == TokenStrings(VersionTokens, MaxTokens)

\* the pieces of a file path, and the values _get_file_format may be given
FormatTokens == { <<"/">>, S_a, <<".">>, S_abc, <<".">> \o FMT_BGEO_SC }
FormatValues ==
    {StrVal(s) : s \in TokenStrings(FormatTokens, MaxTokens)} \cup {NoneVal, IntVal(7), ListVal(<<>>)}

\* the calls the helpers' specification draws
HelperCalls ==
    {HelperCall("_flatten_and_clean_paths", v) : v \in PathValues}
        \cup {HelperCall("refresh_paths", v) : v \in PathValues}
        \cup {HelperCall("_categorize_version", [entity_type |-> e, code |-> c]) :
                  e \in EntityTypes, c \in CodeStrings}
        \cup {HelperCall("_get_version_number", c) : c \in VersionStrings}
        \cup {HelperCall("_get_file_format", v) : v \in FormatValues}

InitHelpers ==
    /\ ui = Blank(FALSE, 0)
    /\ last = NoHandler
    /\ ff = NoCall
    /\ pf \in HelperCalls

\* _flatten_and_clean_paths(data) is called
CallFlattenAndCleanPaths ==
    /\ pf.fn = "_flatten_and_clean_paths" /\ ~pf.done
    /\ pf' = Returned(_flatten_and_clean_paths(pf.arg))
    /\ UNCHANGED <<ui, last, ff>>

\* the path field of a store row goes through find_files (lines 124-130) and
\* then through _handle_refresh (line 613)
CallRefreshPaths ==
    /\ pf.fn = "refresh_paths" /\ ~pf.done
    /\ pf' = Returned(_flatten_and_clean_paths(NormalizeGeo(pf.arg)))
    /\ UNCHANGED <<ui, last, ff>>

\* _flatten_and_clean_paths is called again on the list it returned, as a
\* second normalization of an already normalized path list does
ReapplyFlattenAndCleanPaths ==
    /\ pf.fn = "_flatten_and_clean_paths" /\ pf.done /\ ~pf.reapplied
    /\ pf' = [pf EXCEPT !.reapplied = TRUE,
                        !.again = _flatten_and_clean_paths(
                                      ListVal([k \in 1..Len(pf.out) |-> StrVal(pf.out[k])]))]
    /\ UNCHANGED <<ui, last, ff>>

\* _categorize_version(version_data) is called
CallCategorizeVersion ==
    /\ pf.fn = "_categorize_version" /\ ~pf.done
    /\ pf' = Returned(_categorize_version(pf.arg.entity_type, pf.arg.code))
    /\ UNCHANGED <<ui, last, ff>>

\* _get_version_number(version_code) is called
CallGetVersionNumber ==
    /\ pf.fn = "_get_version_number" /\ ~pf.done
    /\ pf' = Returned(_get_version_number(pf.arg))
    /\ UNCHANGED <<ui, last, ff>>

\* _get_file_format(path) is called
CallGetFileFormat ==
    /\ pf.fn = "_get_file_format" /\ ~pf.done
    /\ pf' = Returned(FileFormatOf(pf.arg))
    /\ UNCHANGED <<ui, last, ff>>

NextHelpers ==
    \/ CallFlattenAndCleanPaths
    \/ ReapplyFlattenAndCleanPaths
    \/ CallRefreshPaths
    \/ CallCategorizeVersion
    \/ CallGetVersionNumber
    \/ CallGetFileFormat

SpecHelpers == InitHelpers /\ [][NextHelpers]_vars

\* ------------------------------------------------------------ properties
\* the batch of a call as find_files groups it (lines 124-134)
BatchOf(c) == [k \in 1..Len(c.answer) |-> Categorized(c.answer[k])]

\* the call returned the latest selection of a batch the store gave it
ReturnedSelection ==
    /\ ff.called
    /\ ff.pid # 0 /\ ff.sg /\ ~ff.find_raises
    /\ ~ff.out.raised

\* C1: for every batch the store returns, the result of find_files holds
\* exactly one record per (entity type, entity id, category) key of the batch,
\* and that record is the first in input order among the records of its key
\* with the greatest parsed version number.
C1_LatestSelection ==
    ReturnedSelection =>
        LET batch == BatchOf(ff)
            res == ff.out.val
            keys == {VersionKey(batch[k]) : k \in 1..Len(batch)}
        IN  /\ Len(res) = Cardinality(keys)
            /\ \A key \in keys :
                 LET idx == {k \in 1..Len(batch) : VersionKey(batch[k]) = key}
                     top == {k \in idx : \A j \in idx :
                                _get_version_number(batch[j].code) <= _get_version_number(batch[k].code)}
                     first == CHOOSE k \in top : \A j \in top : k <= j
                 IN  /\ Cardinality({j \in 1..Len(res) : VersionKey(res[j]) = key}) = 1
                     /\ \E j \in 1..Len(res) : res[j] = batch[first]

\* a batch with two records of one key and one version number, the later one
\* written differently, and a result that keeps the first
C1_Witness ==
    /\ ReturnedSelection
    /\ Len(ff.answer) = 2
    /\ ff.answer[1].code = Code_mdl_v2 /\ ff.answer[2].code = Code_mdl_v02
    /\ Len(ff.out.val) = 1
    /\ ff.out.val[1].code = Code_mdl_v2

\* the format tokens found on the paths of the current history
HistoryFormatTokens == FormatsOf(ui.current_version_history)

selectedFormat == currentText(ui.render_combo)

\* a gallery click has run with format last.cur_fmt selected and has fetched
\* a history that is not empty
ClickedWithFormat ==
    /\ last.op = "click"
    /\ last.cur_fmt # <<>>
    /\ ui.current_version_history # <<>>

\* C2: when a gallery item is chosen while format f is selected and the
\* formats of the newly fetched history contain f, the selected format is
\* still f after the recomputation.
C2_StickyFormat ==
    (ClickedWithFormat /\ last.cur_fmt \in HistoryFormatTokens) => selectedFormat = last.cur_fmt

\* the format kept is the second of the sorted format list
C2_Witness ==
    /\ ClickedWithFormat
    /\ last.cur_fmt = S_usd
    /\ HistoryFormatTokens = {S_abc, S_usd}
    /\ selectedFormat = S_usd
    /\ ui.render_combo.index = 1

\* C3 as the specification words it: when a gallery item is chosen while
\* format f is selected and the formats of the newly fetched history, which
\* is not empty, do not contain f, no format is selected after the
\* recomputation.
C3_FallbackToNone ==
    (ClickedWithFormat /\ last.cur_fmt \notin HistoryFormatTokens) => ui.render_combo.index = -1

\* C3: when a gallery item is chosen while format f is selected and the
\* formats of the newly fetched history, which is not empty, do not contain
\* f, the selected format is the first entry of the sorted format list; no
\* format is selected only when no record of the history has a path.
C3_FallbackToFirst ==
    (ClickedWithFormat /\ last.cur_fmt \notin HistoryFormatTokens) =>
        IF HistoryFormatTokens = {} THEN ui.render_combo.index = -1
        ELSE /\ ui.render_combo.index = 0
             /\ selectedFormat \in HistoryFormatTokens
             /\ \A f \in HistoryFormatTokens : f = selectedFormat \/ str_less(selectedFormat, f)

\* usd was selected, the new history has abc only: abc is selected
C3_Witness ==
    /\ ClickedWithFormat
    /\ last.cur_fmt = S_usd
    /\ HistoryFormatTokens = {S_abc}
    /\ selectedFormat = S_abc

\* C4 as the specification words it: when the version list is recomputed
\* because the user changed the selected format, the version label selected
\* before is selected again if the new version list contains it.
C4_StickyVersionOnFormatChange ==
    [][last'.op = "format" =>
         LET prev == currentText(ui.material_combo)
         IN  (prev # <<>> /\ findText(ui'.material_combo, prev) # -1)
                 => currentText(ui'.material_combo) = prev]_vars

\* does the selected version match the selected sub-asset (lines 750-753)
MatchesSubAsset(d) ==
    IF ui.asset_filter_widget /\ currentText(ui.asset_filter_combo) # <<>>
    THEN IF currentText(ui.asset_filter_combo) = NO_ASSET_FILTER_TAG
         THEN d.asset_name = NoneVal
         ELSE d.asset_name = StrVal(currentText(ui.asset_filter_combo))
    ELSE TRUE

\* C5: in every reachable state of the panel the selected version, if any, is
\* a record of the current history with at least one path whose format token
\* is the selected format, and it matches the selected sub-asset.
C5_VersionTier ==
    ui.material_combo.index # -1 =>
        LET d == currentData(ui.material_combo)
        IN  /\ \E k \in 1..Len(ui.current_version_history) : ui.current_version_history[k] = d
            /\ \E j \in 1..Len(d.sg_path_to_geometry) :
                   _get_file_format(d.sg_path_to_geometry[j]) = selectedFormat
            /\ MatchesSubAsset(d)

\* a history of two records of which the selected format leaves one
C5_Witness ==
    /\ Len(ui.current_version_history) = 2
    /\ selectedFormat = S_abc
    /\ Len(ui.material_combo.items) = 1
    /\ ui.material_combo.index = 0

\* C6: in every reachable state of the panel the selected format is unset or
\* one of the format tokens of the paths of the current history.
C6_FormatTier ==
    ui.render_combo.index = -1 \/ selectedFormat \in HistoryFormatTokens

\* the cascade was loaded with a format and a reset has unset it
C6_Witness ==
    /\ last.op = "clear"
    /\ last.cur_fmt # <<>>
    /\ ui.render_combo.index = -1
    /\ ui.current_version_history = <<>>

\* the pick-lists of the cascade are empty and no path is resolved
ListsEmpty ==
    /\ ui.render_combo = EmptyCombo
    /\ ui.asset_filter_combo = EmptyCombo
    /\ ui.material_combo = EmptyCombo
    /\ ui.file_path_label = S_NA

\* C7: when a gallery item is chosen and the history fetch yields nothing,
\* the cascade is fully reset whatever its state before the click: the
\* history is empty, the format, sub-asset and version lists are empty, the
\* resolved path is "N/A" and no gallery card is left selected.
\* Every cause makes _get_version_history_from_shotgun return [] (lines
\* 695-702) and takes the one branch of line 710.  In the panel a card exists
\* only with a handle, a project and an entity, so the causes a click meets
\* are the empty answer and the store exception.
C7_EmptyHistoryReset ==
    (last.op = "click" /\ ui.current_version_history = <<>>) =>
        /\ ListsEmpty
        /\ ui.currently_selected_widget = 0
        /\ \A k \in 1..Len(ui.cards) : ~ui.cards[k].is_selected

\* a click on a loaded cascade whose fetch yields nothing
C7_Witness ==
    /\ last.op = "click"
    /\ last.cur_fmt # <<>>
    /\ ui.current_version_history = <<>>
    /\ Len(ui.cards) > 0
    /\ ListsEmpty

\* the Empty state of the cascade
CascadeEmpty ==
    /\ ui.current_version_history = <<>>
    /\ ListsEmpty
    /\ ~ui.asset_filter_widget

\* C8: each of clear-selection, refresh, tab switch and project switch leaves
\* the cascade in the Empty state, from any prior cascade state.
C8_ReturnToEmpty ==
    last.op \in {"clear", "refresh", "tab", "project"} => CascadeEmpty

\* a project switch on a loaded cascade
C8_Witness ==
    /\ last.op = "project"
    /\ last.cur_fmt # <<>>
    /\ CascadeEmpty

\* C9 as the specification words it: in every reachable state, if no gallery
\* item is selected then the cascade is empty: the history is empty and no
\* format, version or resolved path is shown.
C9_NoStaleCascade ==
    ui.currently_selected_widget = 0 =>
        /\ ui.current_version_history = <<>>
        /\ ui.render_combo.index = -1
        /\ ui.material_combo.index = -1
        /\ ui.file_path_label = S_NA

\* C10 as the specification words it: if a store query issued during
\* find_files fails (the Sequence lookup of a Shot context or the Version
\* query), find_files returns an empty list and raises nothing.
C10_StoreFailureGivesEmpty ==
    (ff.called /\ (ff.find_raises \/ (ff.etype = "Shot" /\ ff.find_one = "raise"))) =>
        /\ ~ff.out.raised
        /\ ff.out.val = <<>>

\* C11 as the specification words it: for every list of records the store
\* may return from the Version query, find_files returns a list and never
\* raises.
C11_NoExceptionEscapes ==
    ff.called => ~ff.out.raised

\* the characters of the model's strings
Chars == Range(LowerLetters) \cup Range(UpperLetters) \cup Range(DigitChars) \cup Range(PunctChars)

\* a path normalization has run
Normalized == pf.done /\ pf.fn \in {"_flatten_and_clean_paths", "refresh_paths"}

C13_CategoryNeverAbsent ==
    (ff.called /\ ~ff.out.raised) =>
        \A k \in 1..Len(ff.out.val) : ff.out.val[k].category # NoneVal

\* the first token, in the order declared, that the lowered code contains
FirstByPriority(tokens, code, sentinel) ==
    LET in == {k \in 1..Len(tokens) : contains(lower(code), tokens[k])}
    IN  IF in = {} THEN sentinel ELSE tokens[CHOOSE k \in in : \A j \in in : k <= j]

\* C14 as the specification words it: for a record whose code contains
\* several task tokens the category is the token that comes first in the
\* declared priority order of its entity type, matched case-insensitively as
\* a substring, wherever the tokens occur in the code.
C14_CategoryByPriority ==
    (pf.done /\ pf.fn = "_categorize_version" /\ pf.arg.entity_type \in {"Asset", "Shot"}) =>
        pf.out = StrVal(IF pf.arg.entity_type = "Asset"
                        THEN FirstByPriority(ASSET_TOKENS, pf.arg.code, ASSET_UNKNOWN)
                        ELSE FirstByPriority(SHOT_TOKENS, pf.arg.code, SHOT_UNKNOWN))

\* does the code hold a "_v<digits>" segment
HasVersionSegment(code) ==
    \E i \in 1..Len(code) : MatchAt(code, i, <<"_","v">>) /\ i + 2 <= Len(code) /\ code[i + 2] \in Range(DigitChars)

\* C15 as the specification words it: in latest selection a record whose
\* code has no "_v<digits>" segment is never the retained record of its key
\* when the batch holds a record of the same key whose code has one,
\* whatever the order of the two in the batch.
C15_UnversionedLose ==
    ReturnedSelection =>
        \A k \in 1..Len(ff.out.val) :
            ~HasVersionSegment(ff.out.val[k].code) =>
                \A j \in 1..Len(BatchOf(ff)) :
                    VersionKey(BatchOf(ff)[j]) = VersionKey(ff.out.val[k])
                        => ~HasVersionSegment(BatchOf(ff)[j].code)

\* the number a string of digits writes, most significant digit first
RECURSIVE DecimalValue(_)
DecimalValue(ds) ==
    IF ds = <<>> THEN 0
    ELSE (CHOOSE n \in 0..9 : DigitChars[n + 1] = Head(ds)) * 10^(Len(ds) - 1) + DecimalValue(Tail(ds))

\* the digits of the first "_v<digits>" segment of a code that has one
FirstVersionDigits(code) ==
    LET at == {i \in 1..Len(code) : HasVersionSegment(SubSeq(code, i, Len(code)))
                                     /\ MatchAt(code, i, <<"_","v">>)
                                     /\ i + 2 <= Len(code) /\ code[i + 2] \in Range(DigitChars)}
        i == CHOOSE a \in at : \A b \in at : a <= b
        run == {e \in (i + 2)..Len(code) : \A k \in (i + 2)..e : code[k] \in Range(DigitChars)}
    IN  SubSeq(code, i + 2, CHOOSE e \in run : \A f \in run : f <= e)

\* C16: _get_version_number returns the integer value of the digits of the
\* first "_v<digits>" occurrence in the code, leading zeros ignored, and 0
\* when the code has no such occurrence.
C16_VersionNumber ==
    (pf.done /\ pf.fn = "_get_version_number") =>
        pf.out = IF HasVersionSegment(pf.arg) THEN DecimalValue(FirstVersionDigits(pf.arg)) ELSE 0

\* "_v012_v3" gives 12
C16_Witness ==
    /\ pf.done /\ pf.fn = "_get_version_number"
    /\ pf.arg = <<"_","v","0","1","2","_","v","3">>
    /\ pf.out = 12

\* C17: latest selection is idempotent: applied to its own output it
\* returns the same records, and applied again to the same batch it yields
\* the same single record per key.
C17_SelectionIdempotent ==
    ff.reapplied =>
        /\ ff.again = ff.out.val
        /\ ReturnedSelection => LatestSelection(BatchOf(ff), <<>>) = ff.out.val

\* a batch of two keys, one of them with two records
C17_Witness ==
    /\ ff.reapplied
    /\ ReturnedSelection
    /\ Len(ff.answer) = 3
    /\ Len(ff.out.val) = 2
    /\ ff.again = ff.out.val

\* the file name of a path: what follows its last "/"
FileName(path) ==
    LET cuts == {i \in 1..Len(path) : path[i] = "/"}
    IN  IF cuts = {} THEN path
        ELSE SubSeq(path, (CHOOSE i \in cuts : \A j \in cuts : j <= i) + 1, Len(path))

\* the extension of a file name that has one: what follows its last "."
Extension(name) ==
    LET dots == {i \in 1..Len(name) : name[i] = "."}
    IN  SubSeq(name, (CHOOSE i \in dots : \A j \in dots : j <= i) + 1, Len(name))

\* C18 as the specification words it: the format token of a path is
\* "bgeo.sc" when the path ends with ".bgeo.sc", otherwise the extension of
\* the file; a path with no file extension, and any value that is empty or
\* no string, gives "unknown".
C18_FormatToken ==
    (pf.done /\ pf.fn = "_get_file_format") =>
        pf.out = IF pf.arg.t # "str" \/ pf.arg.s = <<>> THEN FMT_UNKNOWN
                 ELSE IF endswith(pf.arg.s, <<".","b","g","e","o",".","s","c">>) THEN FMT_BGEO_SC
                 ELSE IF "." \in Range(FileName(pf.arg.s)) THEN Extension(FileName(pf.arg.s))
                 ELSE FMT_UNKNOWN

\* has the record a path whose format token is the selected format
HasSelectedFormat(v) ==
    \E j \in 1..Len(v.sg_path_to_geometry) : _get_file_format(v.sg_path_to_geometry[j]) = selectedFormat

\* the records attached to the entries of the version list
VersionList == ui.material_combo.data

\* C19: for every history, chosen format and chosen sub-asset the version
\* list holds exactly the history records that have a path of the chosen
\* format and, when a sub-asset is chosen, whose sub-asset name equals it (or
\* is absent when the synthetic tag is chosen); the list is newest-first by
\* creation time, which is the order of the records in the history.
C19_VersionsForSelection ==
    /\ VersionList = SelectSeq(ui.current_version_history,
                               LAMBDA v : HasSelectedFormat(v) /\ MatchesSubAsset(v))
    /\ \A i \in 1..Len(VersionList) : \A j \in i..Len(VersionList) :
           VersionList[i].created_at >= VersionList[j].created_at

\* the synthetic tag is chosen and the list holds the one record of the
\* format that has no sub-asset, out of a history of three
C19_Witness ==
    /\ last.op = "sub-asset"
    /\ Len(ui.current_version_history) = 3
    /\ currentText(ui.asset_filter_combo) = NO_ASSET_FILTER_TAG
    /\ Len(VersionList) = 1
    /\ VersionList[1].asset_name = NoneVal

\* the sub-asset names of the history records that have the selected format
NamesForFormat ==
    {ui.current_version_history[k].asset_name.s :
        k \in {j \in 1..Len(ui.current_version_history) :
                 /\ HasSelectedFormat(ui.current_version_history[j])
                 /\ ui.current_version_history[j].asset_name # NoneVal}}

\* C20: the sub-asset tier is visible if and only if some history record
\* with a path of the chosen format has a sub-asset name; when visible its
\* entries are the distinct names of those records followed by the synthetic
\* tag as the last entry; otherwise the tier is hidden and its list is empty.
C20_SubAssetTier ==
    LET items == ui.asset_filter_combo.items
    IN  /\ ui.asset_filter_widget <=> NamesForFormat # {}
        /\ NamesForFormat # {} =>
               /\ Len(items) = Cardinality(NamesForFormat) + 1
               /\ items[Len(items)] = NO_ASSET_FILTER_TAG
               /\ {items[k] : k \in 1..(Len(items) - 1)} = NamesForFormat
        /\ NamesForFormat = {} => items = <<>>

\* two records of the format share a name and a third has another
C20_Witness ==
    /\ ui.asset_filter_widget
    /\ Len(ui.current_version_history) = 3
    /\ \A k \in 1..3 : HasSelectedFormat(ui.current_version_history[k])
    /\ ui.asset_filter_combo.items = <<S_propA, S_propB, NO_ASSET_FILTER_TAG>>

\* C21: building the version list changes labels only: a step of the cascade
\* leaves every record of the history as it was (code and id included), and
\* the record attached to each entry of the new list is a record of that
\* history, whatever the label made from its path says.
C21_LabelOnly ==
    [][/\ ui'.current_version_history = ui.current_version_history
       /\ \A k \in 1..Len(ui'.material_combo.data) :
              \E j \in 1..Len(ui.current_version_history) :
                  /\ ui.current_version_history[j] = ui'.material_combo.data[k]
                  /\ ui.current_version_history[j].id = ui'.material_combo.data[k].id
                  /\ ui.current_version_history[j].code = ui'.material_combo.data[k].code]_vars

\* a format was chosen and the list shows a label whose version segment is
\* the path's, not the one of the code of the record attached to it
C21_Witness ==
    /\ last.op = "format"
    /\ \E k \in 1..Len(ui.material_combo.items) :
           /\ ui.material_combo.items[k] # ui.material_combo.data[k].code
           /\ ui.material_combo.items[k] = Code_mdl_v2
           /\ ui.material_combo.data[k].code = Code_mdl_v1

\* the step restored the version label that was selected before it: only a
\* gallery click does (lines 728-729)
VersionRestored ==
    /\ last'.op = "click"
    /\ currentText(ui.material_combo) # <<>>
    /\ findText(ui'.material_combo, currentText(ui.material_combo)) # -1

\* C22: after a step that recomputes the version list (a gallery click or a
\* change of format), when the new list is not empty and the step restored no
\* previously selected label, the selected version is the first entry of the
\* list, and no entry of the list is newer than it.
C22_VersionFallback ==
    [][(/\ last'.op \in {"click", "format"}
        /\ ui'.material_combo.items # <<>>
        /\ ~VersionRestored)
       => /\ ui'.material_combo.index = 0
          /\ \A k \in 1..Len(ui'.material_combo.data) :
                 ui'.material_combo.data[1].created_at >= ui'.material_combo.data[k].created_at]_vars

\* a change of format gave a list of two versions and the first is selected
C22_Witness ==
    /\ last.op = "format"
    /\ Len(ui.material_combo.items) = 2
    /\ ui.material_combo.index = 0
    /\ ui.material_combo.data[1].created_at > ui.material_combo.data[2].created_at

\* the positions of the paths of record d whose format token is the selected
\* format
SelectedFormatPaths(d) ==
    {k \in 1..Len(d.sg_path_to_geometry) : _get_file_format(d.sg_path_to_geometry[k]) = selectedFormat}

\* C23: in every reachable state of the panel the resolved path is "N/A" when
\* no version is selected; with a version selected it is the first path of the
\* selected record, in the record's path order, whose format token is the
\* selected format, and it is not "N/A".
C23_ResolvedPath ==
    IF ui.material_combo.index = -1 THEN ui.file_path_label = S_NA
    ELSE LET d == currentData(ui.material_combo)
             hits == SelectedFormatPaths(d)
         IN  /\ hits # {}
             /\ ui.file_path_label =
                    d.sg_path_to_geometry[CHOOSE k \in hits : \A j \in hits : k <= j]
             /\ ui.file_path_label # S_NA

\* the selected record has two paths and the selected format is the one of
\* its second path
C23_Witness ==
    /\ ui.material_combo.index # -1
    /\ Len(currentData(ui.material_combo).sg_path_to_geometry) = 2
    /\ SelectedFormatPaths(currentData(ui.material_combo)) = {2}
    /\ ui.file_path_label = Path_a1_usd

\* the history has a record with at least one path
HistoryHasPath ==
    \E k \in 1..Len(ui.current_version_history) :
        ui.current_version_history[k].sg_path_to_geometry # <<>>

\* C24: when a gallery click has fetched a history with at least one record
\* that has at least one path, the click ends with a format selected, a
\* version selected and a resolved path other than "N/A", whatever the
\* cascade was before the click.
C24_OneClickResolves ==
    (last.op = "click" /\ HistoryHasPath) =>
        /\ ui.render_combo.index # -1
        /\ ui.material_combo.index # -1
        /\ ui.file_path_label # S_NA

\* a click on a card while another format was selected: the history fetched
\* has no path of that format and the click resolves a path all the same
C24_Witness ==
    /\ last.op = "click"
    /\ last.cur_fmt = S_usd
    /\ HistoryHasPath
    /\ selectedFormat = S_abc
    /\ ui.file_path_label = Path_b1_abc

\* C25: in every reachable state of the panel, whatever cards were pressed,
\* dragged or released and whatever cleared, refreshed or rebuilt the
\* gallery, a card of the gallery is in the selected state if and only if it
\* is currently_selected_widget; so at most one card is selected.
C25_SingleSelection ==
    /\ ui.currently_selected_widget \in 0..Len(ui.cards)
    /\ \A k \in 1..Len(ui.cards) :
           ui.cards[k].is_selected <=> k = ui.currently_selected_widget
    /\ Cardinality({k \in 1..Len(ui.cards) : ui.cards[k].is_selected}) <= 1

\* a drag has started on the second card of a gallery of two after another
\* card had been the selected one
C25_Witness ==
    /\ last.op = "drag"
    /\ last.out.kind = "drag"
    /\ Len(ui.cards) = 2
    /\ ui.currently_selected_widget = 2
    /\ ui.cards[2].is_selected
    /\ ~ui.cards[1].is_selected

\* C26: in every reachable state of the panel every record of the history
\* has no sub-asset name, the sub-asset tier is hidden and its list is empty,
\* and the data of every drag, import or reference handed to the host carry
\* the empty string as asset_filter_name.
C26_SubAssetTierUnreachable ==
    /\ \A k \in 1..Len(ui.current_version_history) :
           ui.current_version_history[k].asset_name = NoneVal
    /\ ~ui.asset_filter_widget
    /\ ui.asset_filter_combo.items = <<>>
    /\ last.out.kind # "none" => last.out.data.asset_filter_name = <<>>

\* a drag was handed to the host out of a history of two records
C26_Witness ==
    /\ last.op = "drag"
    /\ last.out.kind = "drag"
    /\ Len(ui.current_version_history) = 2
    /\ last.out.data.asset_filter_name = <<>>
    /\ last.out.data.file_path = ui.file_path_label

\* line 564: the entry the shot pick-list shows for shot code s of sequence seq
ShotEntry(seq, s) ==
    IF startswith(s, seq \o <<"_">>) THEN Drop(s, Len(seq) + 2) ELSE s

\* the gallery records of the resolver results of entity name s
ResultsOfShot(s) ==
    LET hits == SelectSeq(ff.out.val, LAMBDA v : v.entity.name = s)
    IN  [k \in 1..Len(hits) |-> GalleryRecord(hits[k])]

\* C27 as the specification words it: for every sequence and every shot code
\* s listed under it, a refresh made while the pick-list entry of s is chosen
\* filters the gallery to exactly the resolver results whose entity name is
\* s, codes that do not start with "<seq>_" included.
C27_ShotRoundTrip ==
    LET seq == currentText(ui.sequence_combo_shots)
        shots == IF seq \in DOMAIN ui.shots_data THEN ui.shots_data[seq] ELSE <<>>
    IN  (/\ last.op = "refresh"
         /\ ff.called
         /\ ~ff.out.raised
         /\ ui.shot_combo_shots.index > 0)
        => \A k \in 1..Len(shots) :
               ShotEntry(seq, shots[k]) = currentText(ui.shot_combo_shots)
                   => ui.all_versions_for_context = ResultsOfShot(shots[k])

\* C28 as the specification words it: for every input value x,
\* _flatten_and_clean_paths applied to the list _flatten_and_clean_paths(x)
\* returned gives that same list.
C28_NormalizationIdempotent ==
    (pf.fn = "_flatten_and_clean_paths" /\ pf.reapplied) => pf.again = pf.out

\* no path is resolved
NoPath(u) == u.file_path_label = S_NA \/ u.file_path_label = <<>>

\* the step is a transfer handler: a drag, a Maya import or a Maya reference
TransferStep == last'.op \in {"drag", "import", "reference"}

\* C29 as the specification words it: in every state where the resolved path
\* is "N/A" or empty, starting a drag on a card creates no drag and sends no
\* payload, and the Maya import and reference actions execute nothing.
C29_NoTransferWithoutPath ==
    [][(NoPath(ui) /\ TransferStep) => last'.out.kind = "none"]_vars

\* C29 amended: a transfer handler hands something to the host only when the
\* path resolved at its end is neither "N/A" nor empty, and what it hands
\* over carries that path; with no path resolved the Maya import and
\* reference execute nothing, and a drag of the selected card creates no
\* drag.  (A drag of a card that is not the selected one selects it first,
\* which may resolve a path.)
C29_TransferOnlyWithPath ==
    [][/\ (TransferStep /\ last'.out.kind # "none")
              => /\ ~NoPath(ui')
                 /\ last'.out.data.file_path = ui'.file_path_label
       /\ (NoPath(ui) /\ last'.op \in {"import", "reference"}) => last'.out.kind = "none"
       /\ (NoPath(ui) /\ last'.op = "drag" /\ ui.currently_selected_widget \in Pressed(ui))
              => last'.out.kind = "none"]_vars

\* a drag started on a card and no path was resolved: no drag was created
C29_Witness ==
    /\ last.op = "drag"
    /\ NoPath(ui)
    /\ last.out.kind = "none"
    /\ ui.cards # <<>>

\* C30: in every reachable state of a panel whose project list is not empty
\* the project pick-lists of the two tabs show the same index, an index of
\* the list, and the data manager's HAL_PROJECT_SGID and HAL_PROJECT are the
\* id and the name of the project at that index.
C30_ProjectContextInSync ==
    ui.project_list # <<>> =>
        /\ ui.project_combo_assets = ui.project_combo_shots
        /\ ui.project_combo_assets \in 0..(Len(ui.project_list) - 1)
        /\ ui.HAL_PROJECT_SGID = ui.project_list[ui.project_combo_assets + 1].id
        /\ ui.HAL_PROJECT = ui.project_list[ui.project_combo_assets + 1].name

\* the second project was picked on the shot tab
C30_Witness ==
    /\ last.op = "project"
    /\ ui.top_tab_bar = 1
    /\ ui.project_combo_assets = 1
    /\ ui.project_combo_shots = 1
    /\ ui.HAL_PROJECT = Name_p2

====
